---- MODULE Spec2Model ----
(***************************************************************************)
(* A model of the event-analytics services: the index selector and the     *)
(* paginated user filter (app/services/user_service.py), the gathering     *)
(* transaction and its counter updates (app/services/event_service.py) and *)
(* the analytics scan (app/services/email_service.py), over one DynamoDB   *)
(* table.                                                                  *)
(*                                                                         *)
(* Strings built with f"A#{x}#B#{y}" are tuples <<"A", x, "B", y>>; ids and *)
(* last names are small naturals so that sort keys can be ordered; Python  *)
(* dicts are functions whose DOMAIN is the set of keys present.            *)
(***************************************************************************)
EXTENDS Integers, Sequences, FiniteSets, TLC

VARIABLES
    table,      \* the rows of the DynamoDB table, in the order a scan reads them
    lekAtEnd,   \* whether the store still returns a cursor when a batch ends
                \* exactly on the last row (DynamoDB does; the code must not care)
    filters,    \* the filter dict of the request at hand
    strategy,   \* what _choose_best_strategy returned for it, or NotRun
    kind,       \* which paginated read a session drives: "users" or "analytics"
    limit,      \* the page size of the session
    calls,      \* the calls of the session so far: token given and what came back
    result,     \* what the last create_event or process_email_task call did
    eventLog,   \* the create_event calls whose transaction committed, in order
    tasks,      \* the delivery units still to run, one queue for each campaign
    workers     \* the create_event calls running side by side: what each has
                \* still to do of its counter updates, and what it holds

vars == <<table, lekAtEnd, filters, strategy, kind, limit, calls, result, eventLog, tasks,
          workers>>

None == "None"
NotRun == [type |-> "not_run"]
EmptyDict == [k \in {} |-> None]
\* An absent cursor. The code only tests cursors for truthiness, and Python's
\* None and {} are both falsy.
NoKey == EmptyDict

(***************************************************************************)
(* Helpers on sequences.                                                   *)
(***************************************************************************)
Range(s) == {s[i] : i \in DOMAIN s}

Min(a, b) == IF a <= b THEN a ELSE b

\* s[:n]
Take(s, n) == SubSeq(s, 1, Min(n, Len(s)))

\* s[n:]
Drop(s, n) == SubSeq(s, n + 1, Len(s))

\* d.get(k, default)
Get(d, k, default) == IF k \in DOMAIN d THEN d[k] ELSE default

\* Lexicographic order on sequences of naturals, as strings of equal-width
\* fields compare.
RECURSIVE LexLess(_, _)
LexLess(a, b) ==
    IF a = <<>> THEN b # <<>>
    ELSE IF b = <<>> THEN FALSE
    ELSE IF Head(a) # Head(b) THEN Head(a) < Head(b)
    ELSE LexLess(Tail(a), Tail(b))

RECURSIVE Without(_, _)
\* [x for x in s if x != y], in order.
Without(s, y) ==
    IF s = <<>> THEN <<>>
    ELSE IF Head(s) # y
         THEN <<Head(s)>> \o Without(Tail(s), y)
         ELSE Without(Tail(s), y)

(***************************************************************************)
(* UserService.__init__: the static selectivity table, in hundredths       *)
(* (0.05 is 5, 0.1 is 10, 0.2 is 20, 0.8 is 80).                           *)
(***************************************************************************)
index_selectivity ==
    [location |-> 5, company |-> 10, jobTitle |-> 20,
     hostedEventCount |-> 80, attendedEventCount |-> 80]

(***************************************************************************)
(* UserService._choose_best_strategy.                                      *)
(***************************************************************************)
CompanyCandidate(f) ==
    IF "company" \in DOMAIN f
    THEN <<[type |-> "company", selectivity |-> index_selectivity["company"],
            index |-> "GSI_ByCompany", pk |-> <<"COMPANY", f["company"]>>,
            pk_attr |-> "GSI_ByCompany_PK"]>>
    ELSE <<>>

JobTitleCandidate(f) ==
    IF "jobTitle" \in DOMAIN f
    THEN <<[type |-> "jobTitle", selectivity |-> index_selectivity["jobTitle"],
            index |-> "GSI_ByJobTitle", pk |-> <<"JOBTITLE", f["jobTitle"]>>,
            pk_attr |-> "GSI_ByJobTitle_PK"]>>
    ELSE <<>>

LocationRecognizedOr(f) == "city" \in DOMAIN f \/ "state" \in DOMAIN f

LocationRecognized(f) == "city" \in DOMAIN f /\ "state" \in DOMAIN f

\* A slip: the partition key is built with city before state.
LocationCandidateCityFirst(f) ==
    IF LocationRecognized(f)
    THEN <<[type |-> "location", selectivity |-> index_selectivity["location"],
            index |-> "GSI_ByLocation",
            pk |-> <<"LOCATION", f["city"], f["state"]>>,
            pk_attr |-> "GSI_ByLocation_PK"]>>
    ELSE <<>>

LocationCandidate(f) ==
    IF LocationRecognized(f)
    THEN <<[type |-> "location", selectivity |-> index_selectivity["location"],
            index |-> "GSI_ByLocation",
            pk |-> <<"LOCATION",
                     IF "state" \in DOMAIN f THEN f["state"] ELSE None,
                     IF "city" \in DOMAIN f THEN f["city"] ELSE None>>,
            pk_attr |-> "GSI_ByLocation_PK"]>>
    ELSE <<>>

HostedCandidate(f) ==
    IF "hostedEventCount" \in DOMAIN f
    THEN <<[type |-> "hostedEventCount",
            selectivity |-> index_selectivity["hostedEventCount"],
            index |-> "GSI_UsersByHostedCount", pk |-> <<"USER_PROFILE">>,
            pk_attr |-> "GSI_UsersByHostedCount_PK"]>>
    ELSE <<>>

AttendedCandidate(f) ==
    IF "attendedEventCount" \in DOMAIN f
    THEN <<[type |-> "attendedEventCount",
            selectivity |-> index_selectivity["attendedEventCount"],
            index |-> "GSI_UsersByAttendedCount", pk |-> <<"USER_PROFILE">>,
            pk_attr |-> "GSI_UsersByAttendedCount_PK"]>>
    ELSE <<>>

\* available_filters, in the order the code appends them.
AvailableFilters(f) ==
    CompanyCandidate(f) \o JobTitleCandidate(f) \o LocationCandidate(f)
        \o HostedCandidate(f) \o AttendedCandidate(f)

\* A plausible slip: the first candidate found instead of the most selective.
BestFilterFirst(avail) == avail[1]

\* A plausible slip: the last of minimal selectivity.
BestFilterLast(avail) ==
    LET m == CHOOSE i \in DOMAIN avail :
                 /\ \A j \in DOMAIN avail :
                        avail[i].selectivity <= avail[j].selectivity
                 /\ \A j \in (i + 1)..Len(avail) :
                        avail[j].selectivity > avail[i].selectivity
    IN avail[m]

\* min(available_filters, key=selectivity): the first of minimal selectivity.
BestFilter(avail) ==
    LET m == CHOOSE i \in DOMAIN avail :
                 /\ \A j \in DOMAIN avail :
                        avail[i].selectivity <= avail[j].selectivity
                 /\ \A j \in 1..(i - 1) :
                        avail[j].selectivity > avail[i].selectivity
    IN avail[m]

\* A plausible slip: the residual list keeps every candidate.
SecondaryFiltersAll(avail, best) == avail

\* [f for f in available_filters if f != best_filter]
SecondaryFilters(avail, best) == Without(avail, best)

_choose_best_strategy(f) ==
    LET avail == AvailableFilters(f) IN
    IF avail # <<>>
    THEN [type |-> "gsi_query",
          primary_filter |-> BestFilter(avail),
          secondary_filters |-> SecondaryFilters(avail, BestFilter(avail))]
    ELSE [type |-> "scan"]

(***************************************************************************)
(* UserService.create_user: the Person row. phoneNumber, avatar and gender *)
(* are stored and returned untouched and never read; they are left out.    *)
(***************************************************************************)
\* f"{n:010d}" as its ten digits.
Pad10(n) == [i \in 1..10 |-> (n \div (10 ^ (10 - i))) % 10]

\* `if user_data.k:` - present, not None, not the empty string.
Truthy(d, k) == k \in DOMAIN d /\ d[k] \notin {None, ""}

OptField(d, k) == IF Truthy(d, k) THEN (k :> d[k]) ELSE EmptyDict

NameSortKey(d, user_id) == <<"LASTNAME", d.lastName, "USER", user_id>>

create_user_item(user_id, d) ==
    [PK |-> <<"USER", user_id>>, SK |-> <<"PROFILE">>, id |-> user_id,
     firstName |-> d.firstName, lastName |-> d.lastName, email |-> d.email,
     hostedEventCount |-> 0, attendedEventCount |-> 0]
    @@ OptField(d, "jobTitle") @@ OptField(d, "company")
    @@ OptField(d, "city") @@ OptField(d, "state")
    @@ (IF Truthy(d, "company")
        THEN [GSI_ByCompany_PK |-> <<"COMPANY", d.company>>,
              GSI_ByCompany_SK |-> NameSortKey(d, user_id)]
        ELSE EmptyDict)
    @@ (IF Truthy(d, "jobTitle")
        THEN [GSI_ByJobTitle_PK |-> <<"JOBTITLE", d.jobTitle>>,
              GSI_ByJobTitle_SK |-> NameSortKey(d, user_id)]
        ELSE EmptyDict)
    @@ (IF Truthy(d, "city") /\ Truthy(d, "state")
        THEN [GSI_ByLocation_PK |-> <<"LOCATION", d.state, d.city>>,
              GSI_ByLocation_SK |-> NameSortKey(d, user_id)]
        ELSE EmptyDict)
    @@ [GSI_UsersByHostedCount_PK |-> <<"USER_PROFILE">>,
        GSI_UsersByHostedCount_SK |-> <<"HOSTED_COUNT", Pad10(0), "USER", user_id>>,
        GSI_UsersByAttendedCount_PK |-> <<"USER_PROFILE">>,
        GSI_UsersByAttendedCount_SK |-> <<"ATTENDED_COUNT", Pad10(0), "USER", user_id>>,
        GSI_UsersByActivity_PK |-> <<"USER_ACTIVITY">>,
        GSI_UsersByActivity_SK |-> <<"ATTENDED_COUNT", Pad10(0), "USER", user_id>>]

(***************************************************************************)
(* The table and its indexes (scripts/init_dynamodb.py) and the store's    *)
(* reads: a query of one index partition in sort-key order, a scan in the  *)
(* table's own order, each reading at most Limit rows after the cursor.    *)
(***************************************************************************)
IndexSKAttr(index) ==
    CASE index = "GSI_ByCompany" -> "GSI_ByCompany_SK"
      [] index = "GSI_ByJobTitle" -> "GSI_ByJobTitle_SK"
      [] index = "GSI_ByLocation" -> "GSI_ByLocation_SK"
      [] index = "GSI_UsersByHostedCount" -> "GSI_UsersByHostedCount_SK"
      [] index = "GSI_UsersByAttendedCount" -> "GSI_UsersByAttendedCount_SK"

\* A sort key as the naturals its string order rests on.
SortKeyNums(sk) ==
    IF sk[1] = "LASTNAME" THEN <<sk[2], sk[4]>> ELSE sk[2] \o <<sk[4]>>

RECURSIVE SortByIndex(_, _)
SortByIndex(rows, sk_attr) ==
    IF rows = {} THEN <<>>
    ELSE LET m == CHOOSE x \in rows : \A y \in rows \ {x} :
                      LexLess(SortKeyNums(x[sk_attr]), SortKeyNums(y[sk_attr]))
         IN <<m>> \o SortByIndex(rows \ {m}, sk_attr)

\* The rows of one partition of an index, in the index's order. A row that
\* lacks the index's key attributes is not in the index.
IndexPartition(tbl, pk_attr, sk_attr, pk) ==
    SortByIndex({tbl[i] : i \in {j \in DOMAIN tbl :
                     /\ pk_attr \in DOMAIN tbl[j]
                     /\ sk_attr \in DOMAIN tbl[j]
                     /\ tbl[j][pk_attr] = pk}}, sk_attr)

TableKeyOf(row) == [PK |-> row.PK, SK |-> row.SK]

IndexKeyOf(row, pk_attr, sk_attr) ==
    TableKeyOf(row) @@ (pk_attr :> row[pk_attr]) @@ (sk_attr :> row[sk_attr])

\* The position of the row a cursor names. Rows are never deleted, so a
\* cursor the store handed out names a row.
PosOfKey(order, key) ==
    CHOOSE i \in 1..Len(order) : order[i].PK = key.PK /\ order[i].SK = key.SK

ValidationException == [raised |-> "ValidationException"]

\* A slip in the store adapter: the cursor names the first row of the batch.
BatchCursorFirst(order, start, n, keys) ==
    IF start + n < Len(order) \/ (start + n = Len(order) /\ lekAtEnd)
    THEN keys[start + 1]
    ELSE NoKey

\* LastEvaluatedKey of a batch of n rows read after position start: the key
\* of the last row read when the Limit cut the read short, none when the read
\* ran off the end.
BatchCursor(order, start, n, keys) ==
    IF start + n < Len(order) \/ (start + n = Len(order) /\ lekAtEnd)
    THEN keys[start + n]
    ELSE NoKey

\* table.query(IndexName, KeyConditionExpression=Key(pk_attr).eq(pk), Limit,
\* ExclusiveStartKey)
StoreQuery(tbl, index, pk_attr, pk, n, esk) ==
    LET sk_attr == IndexSKAttr(index)
        order == IndexPartition(tbl, pk_attr, sk_attr, pk)
        keys == [i \in 1..Len(order) |-> IndexKeyOf(order[i], pk_attr, sk_attr)]
    IN IF esk # NoKey /\ DOMAIN esk # {"PK", "SK", pk_attr, sk_attr}
       THEN ValidationException
       ELSE LET start == IF esk = NoKey THEN 0 ELSE PosOfKey(order, esk)
            IN [raised |-> None,
                Items |-> SubSeq(order, start + 1, Min(start + n, Len(order))),
                LastEvaluatedKey |-> BatchCursor(order, start, n, keys)]

\* table.scan(FilterExpression=Attr("SK").eq(sk), Limit, ExclusiveStartKey):
\* the Limit counts the rows read, before the filter.
StoreScan(tbl, sk, n, esk) ==
    LET keys == [i \in 1..Len(tbl) |-> TableKeyOf(tbl[i])]
    IN IF esk # NoKey /\ DOMAIN esk # {"PK", "SK"}
       THEN ValidationException
       ELSE LET start == IF esk = NoKey THEN 0 ELSE PosOfKey(tbl, esk)
                read == SubSeq(tbl, start + 1, Min(start + n, Len(tbl)))
            IN [raised |-> None,
                Items |-> SelectSeq(read, LAMBDA row : row.SK = sk),
                LastEvaluatedKey |-> BatchCursor(tbl, start, n, keys)]

(***************************************************************************)
(* The continuation token: base64(json.dumps(key).encode()).decode(), and  *)
(* back. A text is the layers it was built from; a decoder that is handed  *)
(* anything but its own layer raises ValueError (binascii.Error,           *)
(* UnicodeDecodeError and json.JSONDecodeError are all ValueErrors).       *)
(***************************************************************************)
ValueError == [raised |-> "ValueError"]
NoToken == [enc |-> "none", of |-> EmptyDict]
Raw == [enc |-> "raw", of |-> EmptyDict]

json_dumps(v) == [enc |-> "json", of |-> v]
str_encode(s) == [enc |-> "utf8", of |-> s]
b64encode(b) == [enc |-> "base64", of |-> b]

EncodeToken(key) == b64encode(str_encode(json_dumps(key)))

b64decode(t) == IF t.enc = "base64" THEN t.of ELSE ValueError
bytes_decode(b) == IF b = ValueError THEN b ELSE IF b.enc = "utf8" THEN b.of ELSE ValueError
json_loads(s) == IF s = ValueError THEN s ELSE IF s.enc = "json" THEN s.of ELSE ValueError

\* A slip: the token is not read and the read starts over.
ParseTokenRestart(tok) == NoKey

\* A slip: the decode failure is not caught and the request fails.
ParseTokenUncaught(tok) ==
    IF tok = NoToken THEN NoKey
    ELSE json_loads(bytes_decode(b64decode(tok)))

\* `if last_evaluated_key: try: json.loads(base64.b64decode(tok).decode())
\*  except (ValueError, json.JSONDecodeError): None`
ParseToken(tok) ==
    IF tok = NoToken THEN NoKey
    ELSE LET v == json_loads(bytes_decode(b64decode(tok)))
         IN IF v = ValueError THEN NoKey ELSE v

\* Tokens that cannot be decoded: not base64, base64 of bytes that are not
\* UTF-8, base64 of text that is not JSON.
UndecodableTokens == {Raw, b64encode(Raw), b64encode(str_encode(Raw))}

\* A token that decodes, to a JSON object that is no key of the table.
ForgedToken == EncodeToken([bogus |-> <<"x">>])

(***************************************************************************)
(* UserService._matches_all_filters and _clean_dynamodb_fields.            *)
(***************************************************************************)
CountInRange(count, count_filter) ==
    /\ ~("min" \in DOMAIN count_filter /\ count < count_filter["min"])
    /\ ~("max" \in DOMAIN count_filter /\ count > count_filter["max"])

\* A slip: only the company is compared.
_matches_company_only(item, f) ==
    "company" \in DOMAIN f => ~(Get(item, "company", None) # f["company"])

\* A slip: the counts are read from the sort keys of the count indexes.
_matches_by_sort_key(item, f) ==
    /\ ("company" \in DOMAIN f => ~(Get(item, "company", None) # f["company"]))
    /\ ("jobTitle" \in DOMAIN f => ~(Get(item, "jobTitle", None) # f["jobTitle"]))
    /\ ("hostedEventCount" \in DOMAIN f =>
            CountInRange(item.GSI_UsersByHostedCount_SK[2][10], f["hostedEventCount"]))
    /\ ("attendedEventCount" \in DOMAIN f =>
            CountInRange(item.GSI_UsersByAttendedCount_SK[2][10],
                         f["attendedEventCount"]))

\* A slip: a lone city or a lone state is compared too.
LocationMatchesLone(item, f) ==
    /\ ("city" \in DOMAIN f => Get(item, "city", None) = f["city"])
    /\ ("state" \in DOMAIN f => Get(item, "state", None) = f["state"])

LocationMatches(item, f) ==
    ("city" \in DOMAIN f /\ "state" \in DOMAIN f) =>
        ~(Get(item, "city", None) # f["city"] \/ Get(item, "state", None) # f["state"])

_matches_all_filters(item, f) ==
    /\ ("company" \in DOMAIN f => ~(Get(item, "company", None) # f["company"]))
    /\ ("jobTitle" \in DOMAIN f => ~(Get(item, "jobTitle", None) # f["jobTitle"]))
    /\ LocationMatches(item, f)
    /\ ("hostedEventCount" \in DOMAIN f =>
            CountInRange(Get(item, "hostedEventCount", 0), f["hostedEventCount"]))
    /\ ("attendedEventCount" \in DOMAIN f =>
            CountInRange(Get(item, "attendedEventCount", 0), f["attendedEventCount"]))

\* The attribute names that start with "GSI_".
GSIAttrs ==
    {"GSI_ByCompany_PK", "GSI_ByCompany_SK", "GSI_ByJobTitle_PK", "GSI_ByJobTitle_SK",
     "GSI_ByLocation_PK", "GSI_ByLocation_SK", "GSI_UsersByHostedCount_PK",
     "GSI_UsersByHostedCount_SK", "GSI_UsersByAttendedCount_PK",
     "GSI_UsersByAttendedCount_SK", "GSI_UsersByActivity_PK", "GSI_UsersByActivity_SK",
     "GSI_EventAttendees_PK", "GSI_EventAttendees_SK", "GSI_EventsByDate_PK",
     "GSI_EventsByDate_SK"}

_clean_dynamodb_fields(item) ==
    [k \in DOMAIN item \ ({"PK", "SK"} \cup GSIAttrs) |-> item[k]]

CleanAll(items) == [i \in DOMAIN items |-> _clean_dynamodb_fields(items[i])]

(***************************************************************************)
(* UserService._query_with_pagination, _scan_with_pagination, filter_users. *)
(***************************************************************************)
QueryOverfetch == 3
ScanOverfetch == 5
MaxBatch == 100

\* A slip: the batch is not capped.
BatchLimitUncapped(needed, overfetch) == needed * overfetch

\* `min(needed * 3, 100)`, `min(needed * 5, 100)`: the Limit of a store call.
BatchLimit(needed, overfetch) == Min(needed * overfetch, MaxBatch)

\* A slip: the token is handed back whenever the page is full.
NextTokenWhenFull(esk, users, lim) ==
    IF Len(users) = lim THEN EncodeToken(esk) ELSE NoToken

\* `if exclusive_start_key and len(users) == limit: base64...`
NextToken(esk, users, lim) ==
    IF esk # NoKey /\ Len(users) = lim THEN EncodeToken(esk) ELSE NoToken

\* The for loop over a batch: matching items are appended until the page is
\* full, so at most `needed` of them are taken, the first ones.
TakeMatching(items, f, needed) ==
    Take(CleanAll(SelectSeq(items, LAMBDA it : _matches_all_filters(it, f))), needed)

\* The while loop of _query_with_pagination, from a page of `users` so far
\* and the cursor `esk`; what it leaves in users and exclusive_start_key.
\* Each loop also lists the store calls it made, `batches`: the Limit
\* requested and how many items the page held at the time.
RECURSIVE QueryLoop(_, _, _, _, _, _)
QueryLoop(tbl, primary, f, lim, users, esk) ==
    IF ~(Len(users) < lim)
    THEN [raised |-> None, users |-> users, esk |-> esk, batches |-> <<>>]
    ELSE LET needed == lim - Len(users)
             query_limit == BatchLimit(needed, QueryOverfetch)
             response == StoreQuery(tbl, primary.index, primary.pk_attr,
                                    primary.pk, query_limit, esk)
             batch == <<[limit |-> query_limit, collected |-> Len(users)]>>
         IN IF response.raised # None
            THEN [raised |-> response.raised, users |-> users, esk |-> esk,
                  batches |-> batch]
            ELSE LET users2 == users \o TakeMatching(response.Items, f, needed)
                     esk2 == response.LastEvaluatedKey
                 IN IF esk2 = NoKey
                    THEN [raised |-> None, users |-> users2, esk |-> esk2,
                          batches |-> batch]
                    ELSE LET rest == QueryLoop(tbl, primary, f, lim, users2, esk2)
                         IN [rest EXCEPT !.batches = batch \o @]

\* A slip: one batch is read, then the loop is left.
ScanLoopOneBatch(tbl, f, lim, users, esk) ==
    IF ~(Len(users) < lim)
    THEN [raised |-> None, users |-> users, esk |-> esk, batches |-> <<>>]
    ELSE LET needed == lim - Len(users)
             scan_limit == BatchLimit(needed, ScanOverfetch)
             response == StoreScan(tbl, <<"PROFILE">>, scan_limit, esk)
             batch == <<[limit |-> scan_limit, collected |-> Len(users)]>>
         IN IF response.raised # None
            THEN [raised |-> response.raised, users |-> users, esk |-> esk,
                  batches |-> batch]
            ELSE [raised |-> None,
                  users |-> users \o TakeMatching(response.Items, f, needed),
                  esk |-> response.LastEvaluatedKey, batches |-> batch]

RECURSIVE ScanLoop(_, _, _, _, _)
ScanLoop(tbl, f, lim, users, esk) ==
    IF ~(Len(users) < lim)
    THEN [raised |-> None, users |-> users, esk |-> esk, batches |-> <<>>]
    ELSE LET needed == lim - Len(users)
             scan_limit == BatchLimit(needed, ScanOverfetch)
             response == StoreScan(tbl, <<"PROFILE">>, scan_limit, esk)
             batch == <<[limit |-> scan_limit, collected |-> Len(users)]>>
         IN IF response.raised # None
            THEN [raised |-> response.raised, users |-> users, esk |-> esk,
                  batches |-> batch]
            ELSE LET users2 == users \o TakeMatching(response.Items, f, needed)
                     esk2 == response.LastEvaluatedKey
                 IN IF esk2 = NoKey
                    THEN [raised |-> None, users |-> users2, esk |-> esk2,
                          batches |-> batch]
                    ELSE LET rest == ScanLoop(tbl, f, lim, users2, esk2)
                         IN [rest EXCEPT !.batches = batch \o @]

\* What a paginated read gives back: the page and the next token, or the
\* error it raised; cursor is the store's last cursor, kept for the claims.
PageResult(loop, lim) ==
    IF loop.raised # None
    THEN [raised |-> loop.raised, items |-> <<>>, next_token |-> NoToken,
          cursor |-> NoKey, batches |-> loop.batches]
    ELSE [raised |-> None, items |-> loop.users,
          next_token |-> NextToken(loop.esk, loop.users, lim), cursor |-> loop.esk,
          batches |-> loop.batches]

_query_with_pagination(tbl, strat, f, lim, last_evaluated_key) ==
    PageResult(QueryLoop(tbl, strat.primary_filter, f, lim, <<>>,
                         ParseToken(last_evaluated_key)), lim)

_scan_with_pagination(tbl, f, lim, last_evaluated_key) ==
    PageResult(ScanLoop(tbl, f, lim, <<>>, ParseToken(last_evaluated_key)), lim)

filter_users(tbl, f, lim, last_evaluated_key) ==
    LET strat == _choose_best_strategy(f) IN
    IF strat.type = "gsi_query"
    THEN _query_with_pagination(tbl, strat, f, lim, last_evaluated_key)
    ELSE _scan_with_pagination(tbl, f, lim, last_evaluated_key)

(***************************************************************************)
(* The store's writes: put_item, update_item and transact_write_items.     *)
(***************************************************************************)
HasKey(tbl, key) == \E i \in DOMAIN tbl : TableKeyOf(tbl[i]) = key

RowAt(tbl, key) == tbl[CHOOSE i \in DOMAIN tbl : TableKeyOf(tbl[i]) = key]

\* put_item: the row replaces the one with its key, or is new.
PutItem(tbl, item) ==
    IF HasKey(tbl, TableKeyOf(item))
    THEN [i \in DOMAIN tbl |->
              IF TableKeyOf(tbl[i]) = TableKeyOf(item) THEN item ELSE tbl[i]]
    ELSE Append(tbl, item)

\* update_item with SET: the attributes of `changes` are written onto the
\* row with that key; a row that does not exist is created by the update.
UpdateSet(tbl, key, changes) ==
    IF HasKey(tbl, key)
    THEN [i \in DOMAIN tbl |->
              IF TableKeyOf(tbl[i]) = key THEN changes @@ tbl[i] ELSE tbl[i]]
    ELSE Append(tbl, changes @@ key)

\* update_item with ADD attr :inc: an absent attribute counts from 0.
UpdateAdd(tbl, key, attr, inc) ==
    UpdateSet(tbl, key,
              (attr :> (IF HasKey(tbl, key) THEN Get(RowAt(tbl, key), attr, 0) ELSE 0)
                        + inc))

TransactKey(t) == IF t.op = "Put" THEN TableKeyOf(t.Item) ELSE t.Key

\* A slip in the model of the store: every condition passes.
ConditionHoldsAlways(tbl, t) == TRUE

ConditionHolds(tbl, t) ==
    CASE t.cond = "attribute_exists(PK)" -> HasKey(tbl, TransactKey(t))
      [] t.cond = "attribute_not_exists(PK)" -> ~HasKey(tbl, TransactKey(t))
      [] OTHER -> TRUE

RECURSIVE ApplyPuts(_, _)
ApplyPuts(tbl, items) ==
    IF items = <<>> THEN tbl
    ELSE ApplyPuts(IF Head(items).op = "Put" THEN PutItem(tbl, Head(items).Item) ELSE tbl,
                   Tail(items))

\* transact_write_items: rejected outright when two of its operations name
\* the same row, cancelled as a whole when a condition fails, and otherwise
\* all its puts are written together.
TransactWriteItems(tbl, items) ==
    IF \E i, j \in DOMAIN items : i # j /\ TransactKey(items[i]) = TransactKey(items[j])
    THEN [raised |-> "ValidationException", reasons |-> <<>>, table |-> tbl]
    ELSE IF \E i \in DOMAIN items : ~ConditionHolds(tbl, items[i])
    THEN [raised |-> "TransactionCanceledException",
          reasons |-> [i \in DOMAIN items |->
                          IF ConditionHolds(tbl, items[i]) THEN "None"
                          ELSE "ConditionalCheckFailed"],
          table |-> tbl]
    ELSE [raised |-> None, reasons |-> <<>>, table |-> ApplyPuts(tbl, items)]

(***************************************************************************)
(* UserService.increment_hosted_count and increment_attended_count: the    *)
(* atomic ADD that reads the new value back, then the rewrite of the       *)
(* projection sort key(s).                                                 *)
(***************************************************************************)
UserKey(user_id) == [PK |-> <<"USER", user_id>>, SK |-> <<"PROFILE">>]

\* A slip: the new count is computed from the count the hosted-count sort
\* key carries and written with SET, instead of an ADD at the store.
AddHostedCountFromSortKey(tbl, user_id) ==
    UpdateSet(tbl, UserKey(user_id),
              [hostedEventCount |->
                   RowAt(tbl, UserKey(user_id)).GSI_UsersByHostedCount_SK[2][10] + 1])

AddHostedCount(tbl, user_id) == UpdateAdd(tbl, UserKey(user_id), "hostedEventCount", 1)

\* A slip: the sort key is padded to the value before the increment.
HostedSortKeyStale(new_count, user_id) ==
    <<"HOSTED_COUNT", Pad10(new_count - 1), "USER", user_id>>

HostedSortKey(new_count, user_id) == <<"HOSTED_COUNT", Pad10(new_count), "USER", user_id>>

\* A slip: the rewrite of the hosted-count sort key is left out.
SetHostedSortKeySkipped(tbl, user_id, new_count) == tbl

SetHostedSortKey(tbl, user_id, new_count) ==
    UpdateSet(tbl, UserKey(user_id),
              [GSI_UsersByHostedCount_SK |-> HostedSortKey(new_count, user_id)])

increment_hosted_count(tbl, user_id) ==
    LET added == AddHostedCount(tbl, user_id)
        new_count == RowAt(added, UserKey(user_id)).hostedEventCount
    IN SetHostedSortKey(added, user_id, new_count)

AddAttendedCount(tbl, user_id) == UpdateAdd(tbl, UserKey(user_id), "attendedEventCount", 1)

AttendedSortKey(new_count, user_id) ==
    <<"ATTENDED_COUNT", Pad10(new_count), "USER", user_id>>

SetAttendedSortKeys(tbl, user_id, new_count) ==
    UpdateSet(tbl, UserKey(user_id),
              [GSI_UsersByAttendedCount_SK |-> AttendedSortKey(new_count, user_id),
               GSI_UsersByActivity_SK |-> AttendedSortKey(new_count, user_id)])

increment_attended_count(tbl, user_id) ==
    LET added == AddAttendedCount(tbl, user_id)
        new_count == RowAt(added, UserKey(user_id)).attendedEventCount
    IN SetAttendedSortKeys(added, user_id, new_count)

(***************************************************************************)
(* EventService.create_event. Of the event's descriptive fields only slug  *)
(* and startAt are kept; title, description, endAt, venue, maxCapacity and *)
(* owner are copied to the row and to the result and never read.           *)
(***************************************************************************)
\* A slip: the count takes in the hosts too.
event_item_all_participants(event_id, event_data) ==
    [PK |-> <<"EVENT", event_id>>, SK |-> <<"DETAIL">>, id |-> event_id,
     slug |-> event_data.slug, startAt |-> event_data.startAt,
     attendeeCount |-> Len(event_data.hostIds) + Len(event_data.attendeeIds),
     GSI_EventsByDate_PK |-> <<"EVENT_TIMELINE">>,
     GSI_EventsByDate_SK |-> <<"DATE", event_data.startAt>>]

event_item(event_id, event_data) ==
    [PK |-> <<"EVENT", event_id>>, SK |-> <<"DETAIL">>, id |-> event_id,
     slug |-> event_data.slug, startAt |-> event_data.startAt,
     attendeeCount |-> Len(event_data.attendeeIds),
     GSI_EventsByDate_PK |-> <<"EVENT_TIMELINE">>,
     GSI_EventsByDate_SK |-> <<"DATE", event_data.startAt>>]

host_item(event_id, host_id) ==
    [PK |-> <<"EVENT", event_id>>, SK |-> <<"HOST", host_id>>, userId |-> host_id,
     eventId |-> event_id, role |-> "host",
     GSI_EventAttendees_PK |-> <<"EVENT", event_id>>,
     GSI_EventAttendees_SK |-> <<"USER", host_id>>]

\* A slip: the attends edge is filed under the gathering, like a host edge.
attendee_item_under_event(event_id, attendee_id) ==
    [PK |-> <<"EVENT", event_id>>, SK |-> <<"ATTENDEE", attendee_id>>,
     userId |-> attendee_id, eventId |-> event_id, role |-> "attendee",
     GSI_EventAttendees_PK |-> <<"EVENT", event_id>>,
     GSI_EventAttendees_SK |-> <<"USER", attendee_id>>]

attendee_item(event_id, attendee_id) ==
    [PK |-> <<"USER", attendee_id>>, SK |-> <<"ATTENDS", event_id>>,
     userId |-> attendee_id, eventId |-> event_id, role |-> "attendee",
     GSI_EventAttendees_PK |-> <<"EVENT", event_id>>,
     GSI_EventAttendees_SK |-> <<"USER", attendee_id>>]

PutIfAbsent(item) == [op |-> "Put", Item |-> item, cond |-> "attribute_not_exists(PK)"]

UserMustExist(user_id) ==
    [op |-> "ConditionCheck", Key |-> UserKey(user_id), cond |-> "attribute_exists(PK)"]

RECURSIVE HostTransactItems(_, _)
HostTransactItems(event_id, hostIds) ==
    IF hostIds = <<>> THEN <<>>
    ELSE <<PutIfAbsent(host_item(event_id, Head(hostIds))), UserMustExist(Head(hostIds))>>
             \o HostTransactItems(event_id, Tail(hostIds))

RECURSIVE AttendeeTransactItems(_, _)
AttendeeTransactItems(event_id, attendeeIds) ==
    IF attendeeIds = <<>> THEN <<>>
    ELSE <<PutIfAbsent(attendee_item(event_id, Head(attendeeIds))),
           UserMustExist(Head(attendeeIds))>>
             \o AttendeeTransactItems(event_id, Tail(attendeeIds))

TransactItems(event_id, event_data) ==
    <<[op |-> "Put", Item |-> event_item(event_id, event_data), cond |-> None]>>
        \o HostTransactItems(event_id, event_data.hostIds)
        \o AttendeeTransactItems(event_id, event_data.attendeeIds)

RECURSIVE IncrementHosts(_, _)
IncrementHosts(tbl, hostIds) ==
    IF hostIds = <<>> THEN tbl
    ELSE IncrementHosts(increment_hosted_count(tbl, Head(hostIds)), Tail(hostIds))

RECURSIVE IncrementAttendees(_, _)
IncrementAttendees(tbl, attendeeIds) ==
    IF attendeeIds = <<>> THEN tbl
    ELSE IncrementAttendees(increment_attended_count(tbl, Head(attendeeIds)),
                            Tail(attendeeIds))

\* What create_event raises when the transaction did not commit.
TransactionErrorMessages ==
    {"Transaction failed: User not found or duplicate entry",
     "Transaction failed: Conditional check failed", "Failed to create event"}

\* The except branch: what the ClientError of the transaction is raised as.
TransactionErrorMessage(tx) ==
    IF tx.raised = "TransactionCanceledException"
    THEN IF \E i \in DOMAIN tx.reasons : tx.reasons[i] = "ConditionalCheckFailed"
         THEN "Transaction failed: User not found or duplicate entry"
         ELSE "Transaction failed: Conditional check failed"
    ELSE "Failed to create event"

\* str(uuid.uuid4()): an id no event of the table has.
FreshEventId(tbl) ==
    1 + Cardinality({i \in DOMAIN tbl : tbl[i].SK = <<"DETAIL">>})

\* create_event with no store failure after the transaction: the table it
\* leaves and the EventOut it returns, or the exception it raises.
create_event(tbl, event_data) ==
    LET event_id == FreshEventId(tbl)
        tx == TransactWriteItems(tbl, TransactItems(event_id, event_data))
    IN IF tx.raised # None
       THEN [raised |-> TransactionErrorMessage(tx), table |-> tx.table,
             value |-> EmptyDict]
       ELSE [raised |-> None,
             table |-> IncrementAttendees(IncrementHosts(tx.table, event_data.hostIds),
                                          event_data.attendeeIds),
             value |-> [id |-> event_id, slug |-> event_data.slug,
                        startAt |-> event_data.startAt,
                        attendeeCount |-> Len(event_data.attendeeIds)]]

(***************************************************************************)
(* create_event when one update_item of the counter updates fails. The     *)
(* updates run in order, hosts then attendees, two calls for each person:  *)
(* the ADD, then the SET of the sort key(s). A ClientError of either call  *)
(* is re-raised by increment_*_count as a plain Exception, which the       *)
(* `except ClientError` of create_event does not catch.                    *)
(***************************************************************************)
RECURSIVE UpdateCallsOf(_, _)
UpdateCallsOf(role, ids) ==
    IF ids = <<>> THEN <<>>
    ELSE <<[role |-> role, user_id |-> Head(ids), step |-> "ADD"],
           [role |-> role, user_id |-> Head(ids), step |-> "SET"]>>
             \o UpdateCallsOf(role, Tail(ids))

UpdateCalls(event_data) ==
    UpdateCallsOf("host", event_data.hostIds)
        \o UpdateCallsOf("attendee", event_data.attendeeIds)

ApplyUpdateCall(tbl, c) ==
    CASE c.role = "host" /\ c.step = "ADD" -> AddHostedCount(tbl, c.user_id)
      [] c.role = "host" /\ c.step = "SET" ->
            SetHostedSortKey(tbl, c.user_id,
                             RowAt(tbl, UserKey(c.user_id)).hostedEventCount)
      [] c.role = "attendee" /\ c.step = "ADD" -> AddAttendedCount(tbl, c.user_id)
      [] c.role = "attendee" /\ c.step = "SET" ->
            SetAttendedSortKeys(tbl, c.user_id,
                                RowAt(tbl, UserKey(c.user_id)).attendedEventCount)

RECURSIVE ApplyUpdateCalls(_, _)
ApplyUpdateCalls(tbl, cs) ==
    IF cs = <<>> THEN tbl ELSE ApplyUpdateCalls(ApplyUpdateCall(tbl, Head(cs)), Tail(cs))

\* `except ClientError as e: raise Exception(f"Failed to increment ...")`
IncrementErrorMessage(c) ==
    IF c.role = "host" THEN "Failed to increment hosted count"
    ELSE "Failed to increment attended count"

\* create_event when the fail_at-th update_item raises a ClientError: the
\* transaction is committed, the updates before the failing one are applied,
\* the exception leaves create_event and nothing after it runs.
create_event_update_fails(tbl, event_data, fail_at) ==
    LET event_id == FreshEventId(tbl)
        tx == TransactWriteItems(tbl, TransactItems(event_id, event_data))
        cs == UpdateCalls(event_data)
    IN IF tx.raised # None
       THEN [raised |-> TransactionErrorMessage(tx), table |-> tx.table,
             value |-> EmptyDict]
       ELSE [raised |-> IncrementErrorMessage(cs[fail_at]),
             table |-> ApplyUpdateCalls(tx.table, SubSeq(cs, 1, fail_at - 1)),
             value |-> EmptyDict]

(***************************************************************************)
(* EmailService: the analytics row, its status update, and get_analytics.  *)
(* A timestamp string is [ok, aware, t]: whether datetime.fromisoformat    *)
(* parses it, whether it carries a UTC offset (a trailing Z is rewritten   *)
(* to +00:00 first, so Z counts as an offset), and the instant it names,   *)
(* which is also how such strings compare as strings.                      *)
(***************************************************************************)
IsoUtc(t) == [ok |-> TRUE, aware |-> TRUE, t |-> t]
\* Python's None where a timestamp is expected.
NoDate == EmptyDict

analytics_item(email_id, user, campaign_id, subject, utm_params, createdAt) ==
    [PK |-> <<"EMAIL", email_id>>, SK |-> <<"ANALYTICS">>, id |-> email_id,
     userId |-> user.id, email |-> user.email, subject |-> subject,
     status |-> "queued", campaignId |-> campaign_id, createdAt |-> createdAt]
    @@ OptField(utm_params, "utmCampaign") @@ OptField(utm_params, "utmSource")
    @@ OptField(utm_params, "utmMedium")

EmailKey(email_id) == [PK |-> <<"EMAIL", email_id>>, SK |-> <<"ANALYTICS">>]

\* track_email_status: SET #status, and sentAt and errorMessage when given.
track_email_status(tbl, email_id, status, sent_at, error_message) ==
    UpdateSet(tbl, EmailKey(email_id),
              [status |-> status]
              @@ (IF sent_at # NoDate THEN [sentAt |-> sent_at] ELSE EmptyDict)
              @@ (IF error_message \notin {None, ""}
                  THEN [errorMessage |-> error_message] ELSE EmptyDict))

\* A slip: the ends of the range are excluded.
DateInRangeExclusive(item, f) ==
    ("startDate" \in DOMAIN f \/ "endDate" \in DOMAIN f) =>
        /\ "createdAt" \in DOMAIN item
        /\ item.createdAt.ok
        /\ \A k \in {"startDate", "endDate"} \cap DOMAIN f :
               /\ f[k].ok
               /\ f[k].aware = item.createdAt.aware
        /\ ("startDate" \in DOMAIN f => item.createdAt.t > f["startDate"].t)
        /\ ("endDate" \in DOMAIN f => item.createdAt.t < f["endDate"].t)

\* The date-range part of _matches_analytics_filters: a record with no
\* createdAt fails; a string that does not parse (ValueError) or a comparison
\* of a naive with an aware datetime (TypeError) is caught and fails too.
DateInRange(item, f) ==
    ("startDate" \in DOMAIN f \/ "endDate" \in DOMAIN f) =>
        /\ "createdAt" \in DOMAIN item
        /\ item.createdAt.ok
        /\ \A k \in {"startDate", "endDate"} \cap DOMAIN f :
               /\ f[k].ok
               /\ f[k].aware = item.createdAt.aware
        /\ ("startDate" \in DOMAIN f => ~(item.createdAt.t < f["startDate"].t))
        /\ ("endDate" \in DOMAIN f => ~(item.createdAt.t > f["endDate"].t))

\* A slip: a text filter compares with item.get(k, wanted), so a record that
\* lacks the field passes.
_matches_analytics_filters_lenient(item, f) ==
    /\ \A k \in {"status", "utmCampaign", "utmSource", "utmMedium"} \cap DOMAIN f :
           ~(Get(item, k, f[k]) # f[k])
    /\ DateInRange(item, f)

_matches_analytics_filters(item, f) ==
    /\ \A k \in {"status", "utmCampaign", "utmSource", "utmMedium"} \cap DOMAIN f :
           ~(Get(item, k, None) # f[k])
    /\ DateInRange(item, f)

\* A slip: only the storage keys are dropped, no default is added.
_clean_analytics_fields_bare(item) == [k \in DOMAIN item \ {"PK", "SK"} |-> item[k]]

_clean_analytics_fields(item) ==
    [k \in DOMAIN item \ {"PK", "SK"} |-> item[k]]
    @@ [utmCampaign |-> None, utmSource |-> None, utmMedium |-> None,
        sentAt |-> NoDate, errorMessage |-> None]

\* x.get("createdAt", ""), as the sort compares it: the empty string sorts
\* below every timestamp.
CreatedAtOrder(item) == IF "createdAt" \in DOMAIN item THEN item.createdAt.t ELSE -1

\* A slip: the matches are left in the order the scan returned them.
KeepScanOrder(s) == s

\* list.sort(key=createdAt, reverse=True): descending and stable, equal
\* keys keep the order they had.
RECURSIVE SortNewestFirst(_)
SortNewestFirst(s) ==
    IF s = <<>> THEN <<>>
    ELSE LET m == CHOOSE i \in DOMAIN s :
                      /\ \A j \in DOMAIN s : CreatedAtOrder(s[j]) <= CreatedAtOrder(s[i])
                      /\ \A j \in 1..(i - 1) : CreatedAtOrder(s[j]) < CreatedAtOrder(s[i])
         IN <<s[m]>> \o SortNewestFirst(SubSeq(s, 1, m - 1) \o SubSeq(s, m + 1, Len(s)))

AnalyticsOverfetch == 5

\* A slip: one batch is read and its cursor returned, whatever was found.
AnalyticsLoopOneBatch(tbl, f, lim, emails, last_db_key) ==
    IF ~(Len(emails) < lim)
    THEN [raised |-> None, emails |-> emails, last_db_key |-> last_db_key,
          batches |-> <<>>]
    ELSE LET scan_limit == BatchLimit(lim - Len(emails), AnalyticsOverfetch)
             response == StoreScan(tbl, <<"ANALYTICS">>, scan_limit, last_db_key)
             batch == <<[limit |-> scan_limit, collected |-> Len(emails)]>>
         IN IF response.raised # None
            THEN [raised |-> response.raised, emails |-> emails,
                  last_db_key |-> last_db_key, batches |-> batch]
            ELSE [raised |-> None,
                  emails |-> emails \o SelectSeq(response.Items,
                                 LAMBDA it : _matches_analytics_filters(it, f)),
                  last_db_key |-> response.LastEvaluatedKey, batches |-> batch]

\* The while loop of _get_filtered_analytics: every match of a batch is kept.
RECURSIVE AnalyticsLoop(_, _, _, _, _)
AnalyticsLoop(tbl, f, lim, emails, last_db_key) ==
    IF ~(Len(emails) < lim)
    THEN [raised |-> None, emails |-> emails, last_db_key |-> last_db_key,
          batches |-> <<>>]
    ELSE LET scan_limit == BatchLimit(lim - Len(emails), AnalyticsOverfetch)
             response == StoreScan(tbl, <<"ANALYTICS">>, scan_limit, last_db_key)
             batch == <<[limit |-> scan_limit, collected |-> Len(emails)]>>
         IN IF response.raised # None
            THEN [raised |-> response.raised, emails |-> emails,
                  last_db_key |-> last_db_key, batches |-> batch]
            ELSE LET emails2 == emails \o SelectSeq(response.Items,
                                     LAMBDA it : _matches_analytics_filters(it, f))
                     key2 == response.LastEvaluatedKey
                 IN IF key2 = NoKey
                    THEN [raised |-> None, emails |-> emails2, last_db_key |-> key2,
                          batches |-> batch]
                    ELSE LET rest == AnalyticsLoop(tbl, f, lim, emails2, key2)
                         IN [rest EXCEPT !.batches = batch \o @]

_get_filtered_analytics(tbl, f, lim, last_evaluated_key) ==
    LET loop == AnalyticsLoop(tbl, f, lim, <<>>, ParseToken(last_evaluated_key))
        sorted == SortNewestFirst(loop.emails)
        has_more == Len(loop.emails) > lim \/ loop.last_db_key # NoKey
    IN IF loop.raised # None
       THEN [raised |-> loop.raised, items |-> <<>>, next_token |-> NoToken,
             cursor |-> NoKey, batches |-> loop.batches]
       ELSE [raised |-> None, items |-> Take(sorted, lim),
             next_token |-> IF has_more /\ loop.last_db_key # NoKey
                            THEN EncodeToken(loop.last_db_key) ELSE NoToken,
             cursor |-> loop.last_db_key, batches |-> loop.batches]

\* A slip: the count takes response["Count"] whatever the filters are.
_get_analytics_count_unfiltered(tbl, f) ==
    Len(SelectSeq(tbl, LAMBDA row : row.SK = <<"ANALYTICS">>))

\* _get_analytics_count: scans without a Limit until the store returns no
\* cursor, so every analytics row of the table is counted once.
_get_analytics_count(tbl, f) ==
    Len(SelectSeq(tbl, LAMBDA row :
            row.SK = <<"ANALYTICS">> /\ _matches_analytics_filters(row, f)))

\* The filters get_analytics builds from its arguments, each kept when truthy.
AnalyticsFilters(args) ==
    LET name == [status |-> "status", utm_campaign |-> "utmCampaign",
                 utm_source |-> "utmSource", utm_medium |-> "utmMedium",
                 start_date |-> "startDate", end_date |-> "endDate"]
        texts == {"status", "utm_campaign", "utm_source", "utm_medium"}
        given == {a \in DOMAIN args :
                     IF a \in texts THEN args[a] \notin {None, ""} ELSE args[a] # NoDate}
    IN [k \in {name[a] : a \in given} |->
            args[CHOOSE a \in given : name[a] = k]]

\* A slip: hasMore is set whenever the page is full.
get_analytics_more_when_full(tbl, args, lim, last_evaluated_key) ==
    LET f == AnalyticsFilters(args)
        page == _get_filtered_analytics(tbl, f, lim, last_evaluated_key)
    IN IF page.raised # None
       THEN page
       ELSE [raised |-> None,
             items |-> [i \in DOMAIN page.items |-> _clean_analytics_fields(page.items[i])],
             next_token |-> page.next_token,
             cursor |-> page.cursor,
             count |-> Len(page.items),
             total |-> _get_analytics_count(tbl, f),
             hasMore |-> Len(page.items) = lim,
             batches |-> page.batches]

get_analytics(tbl, args, lim, last_evaluated_key) ==
    LET f == AnalyticsFilters(args)
        page == _get_filtered_analytics(tbl, f, lim, last_evaluated_key)
    IN IF page.raised # None
       THEN page
       ELSE [raised |-> None,
             items |-> [i \in DOMAIN page.items |-> _clean_analytics_fields(page.items[i])],
             next_token |-> page.next_token,
             cursor |-> page.cursor,
             count |-> Len(page.items),
             total |-> _get_analytics_count(tbl, f),
             hasMore |-> page.next_token # NoToken,
             batches |-> page.batches]

(***************************************************************************)
(* EmailService.send_bulk_email and process_email_task. The recipients are *)
(* one filter_users call with its default page size and no token. The      *)
(* delivery units are queued on BackgroundTasks and run after the response, *)
(* in the order they were added.                                           *)
(***************************************************************************)
DefaultLimit == 50

\* The filters send_bulk_email builds from the request: company and jobTitle
\* when truthy, city and state only together, a count range when either of
\* its ends is given.
CountRangeOf(email_request, lo, hi) ==
    (IF lo \in DOMAIN email_request THEN [min |-> email_request[lo]] ELSE EmptyDict)
        @@ (IF hi \in DOMAIN email_request THEN [max |-> email_request[hi]] ELSE EmptyDict)

EmailFilters(email_request) ==
    OptField(email_request, "company") @@ OptField(email_request, "jobTitle")
        @@ (IF Truthy(email_request, "city") /\ Truthy(email_request, "state")
            THEN [city |-> email_request.city, state |-> email_request.state]
            ELSE EmptyDict)
        @@ (IF {"hostedEventCountMin", "hostedEventCountMax"} \cap DOMAIN email_request # {}
            THEN [hostedEventCount |->
                      CountRangeOf(email_request, "hostedEventCountMin", "hostedEventCountMax")]
            ELSE EmptyDict)
        @@ (IF {"attendedEventCountMin", "attendedEventCountMax"} \cap DOMAIN email_request # {}
            THEN [attendedEventCount |->
                      CountRangeOf(email_request, "attendedEventCountMin",
                                   "attendedEventCountMax")]
            ELSE EmptyDict)

\* `users, _ = self.user_service.filter_users(filters)`: the first page, of
\* the default size; the token is dropped.
_filter_users_for_email(tbl, f) == filter_users(tbl, f, DefaultLimit, NoToken).items

\* str(uuid.uuid4()): an id no email record of the table has.
FreshEmailId(tbl) ==
    1 + Cardinality({i \in DOMAIN tbl : tbl[i].SK = <<"ANALYTICS">>})

\* _create_email_analytics_items: one put_item for each user, in order, the
\* clock read at each one. The ids are fresh, so every put adds a row.
_create_email_analytics_items(tbl, users, campaign_id, subject, utm_params) ==
    LET first == FreshEmailId(tbl)
        email_ids == [i \in DOMAIN users |-> first + i - 1]
    IN [table |-> tbl \o [i \in DOMAIN users |->
                              analytics_item(email_ids[i], users[i], campaign_id,
                                             subject, utm_params, IsoUtc(email_ids[i]))],
        email_ids |-> email_ids]

\* A slip: the first delivery unit runs inside the request.
run_first_task_now(tbl, users, email_ids) ==
    IF users = <<>> THEN [table |-> tbl, queue |-> <<>>]
    ELSE [table |-> track_email_status(tbl, email_ids[1], "sent",
                                       IsoUtc(FreshEmailId(tbl)), None),
          queue |-> [i \in 1..(Len(users) - 1) |->
                        [email_id |-> email_ids[i + 1], user_email |-> users[i + 1].email]]]

\* A slip: every delivery unit is queued twice.
add_tasks_twice(tbl, users, email_ids) ==
    [table |-> tbl,
     queue |-> [i \in 1..(2 * Len(users)) |->
                   [email_id |-> email_ids[(i + 1) \div 2],
                    user_email |-> users[(i + 1) \div 2].email]]]

\* `for i, user in enumerate(users): background_tasks.add_task(...)`: the
\* table is not touched.
add_tasks(tbl, users, email_ids) ==
    [table |-> tbl,
     queue |-> [i \in DOMAIN users |->
                   [email_id |-> email_ids[i], user_email |-> users[i].email]]]

send_bulk_email(tbl, email_request, campaign_id) ==
    LET users == _filter_users_for_email(tbl, EmailFilters(email_request))
        utm_params == [k \in {"utmCampaign", "utmSource", "utmMedium"} |->
                          Get(email_request, k, None)]
        created == _create_email_analytics_items(tbl, users, campaign_id,
                                                 email_request.subject, utm_params)
        added == add_tasks(created.table, users, created.email_ids)
    IN [table |-> added.table, queue |-> added.queue,
        value |-> [emailsQueued |-> Len(users), campaignId |-> campaign_id]]

\* What send_email_via_service may do: return a truthy or a falsy value, or
\* raise an exception, whose text may be empty.
SendOutcomes ==
    {[returns |-> TRUE], [returns |-> FALSE], [throws |-> "SMTP server error"],
     [throws |-> ""]}

\* A slip: the outcome of the send is not looked at.
process_email_task_always_sent(tbl, email_id, outcome, now) ==
    track_email_status(tbl, email_id, "sent", now, None)

\* A slip: the unit records its outcome on the first record still queued.
process_email_task_first_queued(tbl, email_id, outcome, now) ==
    LET queued == {i \in DOMAIN tbl :
                      tbl[i].SK = <<"ANALYTICS">> /\ tbl[i].status = "queued"}
        target == IF queued = {} THEN email_id
                  ELSE tbl[CHOOSE i \in queued : \A j \in queued : i <= j].id
    IN IF "throws" \in DOMAIN outcome
       THEN track_email_status(tbl, target, "failed", NoDate, outcome.throws)
       ELSE IF outcome.returns
       THEN track_email_status(tbl, target, "sent", now, None)
       ELSE track_email_status(tbl, target, "failed", NoDate,
                               "Email service returned failure")

\* process_email_task, the send capability doing `outcome`, the clock
\* reading `now`.
process_email_task(tbl, email_id, outcome, now) ==
    IF "throws" \in DOMAIN outcome
    THEN track_email_status(tbl, email_id, "failed", NoDate, outcome.throws)
    ELSE IF outcome.returns
    THEN track_email_status(tbl, email_id, "sent", now, None)
    ELSE track_email_status(tbl, email_id, "failed", NoDate,
                            "Email service returned failure")

(***************************************************************************)
(* The planner on its own: every subset of the filter keys below, each key *)
(* with one value, is a request.                                           *)
(***************************************************************************)
PlanKeys ==
    {"company", "jobTitle", "city", "state", "hostedEventCount",
     "attendedEventCount", "firstName"}

PlanValue(k) ==
    CASE k = "company" -> "Tech Corp"
      [] k = "jobTitle" -> "Developer"
      [] k = "city" -> "San Francisco"
      [] k = "state" -> "CA"
      [] k = "hostedEventCount" -> [min |-> 0, max |-> 0]
      [] k = "attendedEventCount" -> [min |-> 0]
      [] OTHER -> "Alice"

PlanFilterSets == {[k \in ks |-> PlanValue(k)] : ks \in SUBSET PlanKeys}

InitPlan ==
    /\ filters \in PlanFilterSets
    /\ strategy = NotRun
    /\ table = <<>>
    /\ lekAtEnd = TRUE
    /\ kind = "plan"
    /\ limit = 0
    /\ calls = <<>>
    /\ result = NotRun
    /\ eventLog = <<>>
    /\ tasks = <<>>
    /\ workers = <<>>

ChooseBestStrategy ==
    /\ strategy = NotRun
    /\ strategy' = _choose_best_strategy(filters)
    /\ UNCHANGED <<table, lekAtEnd, filters, kind, limit, calls, result, eventLog, tasks, workers>>

NextPlan == ChooseBestStrategy

SpecPlan == InitPlan /\ [][NextPlan]_vars

(***************************************************************************)
(* Gathering creation: two registered persons, and create_event called     *)
(* with any host and attendee lists over them and one id nobody registered.*)
(***************************************************************************)
MaxEvents == 2
MaxParticipants == 2

UserIds == {1, 2}
UnknownUserIds == {3}

UserData(user_id) ==
    [firstName |-> "Alice", lastName |-> user_id, email |-> "user@example.com",
     company |-> "Tech Corp"]

RECURSIVE RegisterAll(_, _)
RegisterAll(tbl, ids) ==
    IF ids = {} THEN tbl
    ELSE LET user_id == CHOOSE x \in ids : \A y \in ids : x <= y
         IN RegisterAll(PutItem(tbl, create_user_item(user_id, UserData(user_id))),
                        ids \ {user_id})

\* A list that names the same id more than once.
HasRepeat(ids) == \E i, j \in DOMAIN ids : i # j /\ ids[i] = ids[j]

IdLists == UNION {[1..k -> UserIds \cup UnknownUserIds] : k \in 0..MaxParticipants}

InitEvent ==
    /\ table = RegisterAll(<<>>, UserIds)
    /\ lekAtEnd = TRUE
    /\ filters = EmptyDict
    /\ strategy = NotRun
    /\ kind = "events"
    /\ limit = 0
    /\ calls = <<>>
    /\ result = NotRun
    /\ eventLog = <<>>
    /\ tasks = <<>>
    /\ workers = <<>>

CreateEvent ==
    \E hostIds \in IdLists, attendeeIds \in IdLists :
        /\ Len(hostIds) + Len(attendeeIds) <= MaxParticipants
        /\ Len(eventLog) < MaxEvents
        /\ \E r \in {create_event(table, [slug |-> "meetup", startAt |-> 1,
                                            hostIds |-> hostIds,
                                            attendeeIds |-> attendeeIds])} :
              /\ table' = r.table
              /\ result' = [type |-> "create_event", raised |-> r.raised,
                            referenced |-> Range(hostIds) \cup Range(attendeeIds),
                            repeated |-> HasRepeat(hostIds) \/ HasRepeat(attendeeIds),
                            value |-> r.value]
              /\ eventLog' = IF r.raised = None
                             THEN Append(eventLog, [hostIds |-> hostIds,
                                                    attendeeIds |-> attendeeIds])
                             ELSE eventLog
        /\ UNCHANGED <<lekAtEnd, filters, strategy, kind, limit, calls, tasks, workers>>

NextEvent == CreateEvent

SpecEvent == InitEvent /\ [][NextEvent]_vars

(***************************************************************************)
(* The same calls when the store may fail one update_item after the        *)
(* transaction has committed. eventLog lists every call whose transaction  *)
(* committed, in order, so its i-th entry is the event with id i. The      *)
(* store fails at most once in a run.                                      *)
(***************************************************************************)
CreateEventUpdateFails ==
    \E hostIds \in IdLists, attendeeIds \in IdLists :
        /\ Len(hostIds) + Len(attendeeIds) <= MaxParticipants
        /\ Len(eventLog) < MaxEvents
        /\ \A i \in DOMAIN eventLog : "failed_call" \notin DOMAIN eventLog[i]
        /\ LET event_data == [slug |-> "meetup", startAt |-> 1, hostIds |-> hostIds,
                              attendeeIds |-> attendeeIds]
           IN \E fail_at \in DOMAIN UpdateCalls(event_data) :
                  \E r \in {create_event_update_fails(table, event_data, fail_at)} :
                     /\ r.raised \notin TransactionErrorMessages
                     /\ table' = r.table
                     /\ result' = [type |-> "create_event", raised |-> r.raised,
                                   referenced |-> Range(hostIds) \cup Range(attendeeIds),
                                   repeated |-> HasRepeat(hostIds) \/ HasRepeat(attendeeIds),
                                   value |-> r.value,
                                   failed_call |-> UpdateCalls(event_data)[fail_at]]
                     /\ eventLog' = Append(eventLog,
                                           [hostIds |-> hostIds,
                                            attendeeIds |-> attendeeIds,
                                            failed_call |-> UpdateCalls(event_data)[fail_at]])
        /\ UNCHANGED <<lekAtEnd, filters, strategy, kind, limit, calls, tasks, workers>>


(***************************************************************************)
(* Paginated reads over a table that does not change: a session picks a    *)
(* table, a filter set and a page size, reads the first page and then      *)
(* follows the tokens it is given, or opens with a token of its own.       *)
(***************************************************************************)
MaxRows == 6
MaxLimit == 2

Alice ==
    [firstName |-> "Alice", lastName |-> 2, email |-> "alice@tech.com",
     company |-> "Tech Corp", jobTitle |-> "Developer",
     city |-> "San Francisco", state |-> "CA"]

Bob ==
    [firstName |-> "Bob", lastName |-> 1, email |-> "bob@tech.com",
     company |-> "Tech Corp", jobTitle |-> "Designer",
     city |-> "Austin", state |-> "TX"]

\* A person registered with no company and no state.
Carol ==
    [firstName |-> "Carol", lastName |-> 3, email |-> "carol@design.com",
     company |-> "", jobTitle |-> "Developer",
     city |-> "San Francisco", state |-> None]

\* The row a letter stands for at position i of the table: a Person as
\* create_user writes it, a Gathering created with no participant, an email
\* record sent or still queued for the person `owner`, an email record sent
\* for a campaign whose utmCampaign contains "spring" without being equal to it.
RowOf(letter, i, owner) ==
    CASE letter = "Alice" -> create_user_item(i, Alice)
      [] letter = "Bob" -> create_user_item(i, Bob)
      [] letter = "Carol" -> create_user_item(i, Carol)
      [] letter = "Gathering" ->
            event_item(i, [slug |-> "meetup", startAt |-> 1, attendeeIds |-> <<>>])
      [] letter = "Sent" ->
            track_email_status(
                <<analytics_item(i, [id |-> owner, email |-> Alice.email], "campaign-1",
                                 "Hello", [utmCampaign |-> "spring"], IsoUtc(i))>>,
                i, "sent", IsoUtc(i + 1), None)[1]
      [] letter = "Queued" ->
            analytics_item(i, [id |-> owner, email |-> Alice.email], "campaign-2",
                           "Hello", EmptyDict, IsoUtc(MaxRows + 1 - i))
      [] letter = "Sale" ->
            track_email_status(
                <<analytics_item(i, [id |-> owner, email |-> Alice.email], "campaign-3",
                                 "Hello", [utmCampaign |-> "spring-sale",
                                           utmSource |-> "newsletter"], IsoUtc(i))>>,
                i, "sent", IsoUtc(i + 1), None)[1]

TableOf(word) ==
    LET owner == IF \E i \in DOMAIN word : word[i] = "Alice"
                 THEN CHOOSE i \in DOMAIN word : word[i] = "Alice" ELSE 0
    IN [i \in DOMAIN word |-> RowOf(word[i], i, owner)]

Words(letters) == UNION {[1..n -> letters] : n \in 0..MaxRows}

UserTables == {TableOf(w) : w \in Words({"Alice", "Bob", "Gathering"})}

\* An email record exists only for a person that was found.
AnalyticsTables ==
    {TableOf(w) : w \in {v \in Words({"Sent", "Queued", "Alice"}) :
                            \E i \in DOMAIN v : v[i] = "Alice"}}

UserFilterSets ==
    {[firstName |-> "Alice"],
     [city |-> "Austin"],
     [company |-> "Tech Corp"],
     [company |-> "Tech Corp", jobTitle |-> "Developer"],
     [hostedEventCount |-> [min |-> 1]]}

AnalyticsArgSets == {EmptyDict, [status |-> "sent"]}

InitPage ==
    /\ lekAtEnd \in BOOLEAN
    /\ limit \in 1..MaxLimit
    /\ \/ kind = "users" /\ table \in UserTables /\ filters \in UserFilterSets
       \/ kind = "analytics" /\ table \in AnalyticsTables /\ filters \in AnalyticsArgSets
    /\ strategy = NotRun
    /\ calls = <<>>
    /\ result = NotRun
    /\ eventLog = <<>>
    /\ tasks = <<>>
    /\ workers = <<>>

Last(s) == s[Len(s)]

Logged(tok, r) == [token |-> tok] @@ r

FilterUsersFirstPage ==
    /\ kind = "users" /\ calls = <<>>
    /\ calls' = <<Logged(NoToken, filter_users(table, filters, limit, NoToken))>>
    /\ UNCHANGED <<table, lekAtEnd, filters, strategy, kind, limit, result, eventLog, tasks, workers>>

FilterUsersNextPage ==
    /\ kind = "users" /\ calls # <<>>
    /\ calls[1].token = NoToken
    /\ Last(calls).next_token # NoToken
    /\ calls' = Append(calls, Logged(Last(calls).next_token,
                           filter_users(table, filters, limit, Last(calls).next_token)))
    /\ UNCHANGED <<table, lekAtEnd, filters, strategy, kind, limit, result, eventLog, tasks, workers>>

FilterUsersOwnToken ==
    /\ kind = "users" /\ calls = <<>>
    /\ \E tok \in UndecodableTokens \cup {ForgedToken} :
           calls' = <<Logged(tok, filter_users(table, filters, limit, tok))>>
    /\ UNCHANGED <<table, lekAtEnd, filters, strategy, kind, limit, result, eventLog, tasks, workers>>

GetAnalyticsFirstPage ==
    /\ kind = "analytics" /\ calls = <<>>
    /\ calls' = <<Logged(NoToken, get_analytics(table, filters, limit, NoToken))>>
    /\ UNCHANGED <<table, lekAtEnd, filters, strategy, kind, limit, result, eventLog, tasks, workers>>

GetAnalyticsNextPage ==
    /\ kind = "analytics" /\ calls # <<>>
    /\ calls[1].token = NoToken
    /\ Last(calls).next_token # NoToken
    /\ calls' = Append(calls, Logged(Last(calls).next_token,
                           get_analytics(table, filters, limit, Last(calls).next_token)))
    /\ UNCHANGED <<table, lekAtEnd, filters, strategy, kind, limit, result, eventLog, tasks, workers>>

GetAnalyticsOwnToken ==
    /\ kind = "analytics" /\ calls = <<>>
    /\ \E tok \in UndecodableTokens \cup {ForgedToken} :
           calls' = <<Logged(tok, get_analytics(table, filters, limit, tok))>>
    /\ UNCHANGED <<table, lekAtEnd, filters, strategy, kind, limit, result, eventLog, tasks, workers>>

NextPage ==
    \/ FilterUsersFirstPage
    \/ FilterUsersNextPage
    \/ FilterUsersOwnToken
    \/ GetAnalyticsFirstPage
    \/ GetAnalyticsNextPage
    \/ GetAnalyticsOwnToken

SpecPage == InitPage /\ [][NextPage]_vars

(***************************************************************************)
(* Campaigns: a table of persons, dispatches of campaigns to them and the  *)
(* delivery units the dispatches queued. The tables are small ones and the *)
(* one that holds one person more than a default page.                     *)
(***************************************************************************)
MaxPersons == 3
MaxCampaigns == 1
MaxDeliveries == 2

PersonCounts == (0..MaxPersons) \cup {DefaultLimit + 1}

\* n persons: Alice, Bob, Alice, ...
PersonTable(n) ==
    [i \in 1..n |-> create_user_item(i, IF i % 2 = 1 THEN Alice ELSE Bob)]

EmailRequests ==
    {[subject |-> "Hello", utmCampaign |-> "spring"],
     [subject |-> "Hello", utmCampaign |-> "spring", jobTitle |-> "Developer"],
     [subject |-> "Hello", city |-> "Austin"]}

InitMail ==
    /\ table \in {PersonTable(n) : n \in PersonCounts}
    /\ lekAtEnd \in BOOLEAN
    /\ filters = EmptyDict
    /\ strategy = NotRun
    /\ kind = "mail"
    /\ limit = 0
    /\ calls = <<>>
    /\ result = NotRun
    /\ eventLog = <<>>
    /\ tasks = <<>>
    /\ workers = <<>>

\* A dispatch: the campaign id is fresh, calls logs the request and the
\* response, the units it queued wait in a queue of their own.
Dispatch(email_request) ==
    /\ Len(calls) < MaxCampaigns
    /\ \E r \in {send_bulk_email(table, email_request, Len(calls) + 1)} :
           /\ table' = r.table
           /\ calls' = Append(calls, [type |-> "send_bulk_email",
                                      request |-> email_request, value |-> r.value])
           /\ tasks' = Append(tasks, r.queue)
    /\ UNCHANGED <<lekAtEnd, filters, strategy, kind, limit, result, eventLog, workers>>

SendBulkEmail == \E email_request \in EmailRequests : Dispatch(email_request)

Delivered(tbl) ==
    Cardinality({i \in DOMAIN tbl : tbl[i].SK = <<"ANALYTICS">> /\ tbl[i].status # "queued"})

\* The next unit of a campaign runs: BackgroundTasks runs the units of one
\* response in order; the units of different responses interleave.
RunEmailTask ==
    /\ Delivered(table) < MaxDeliveries
    /\ \E c \in DOMAIN tasks :
           /\ tasks[c] # <<>>
           /\ \E outcome \in SendOutcomes :
                  /\ table' = process_email_task(table, Head(tasks[c]).email_id, outcome,
                                                 IsoUtc(FreshEmailId(table)))
                  /\ result' = [type |-> "process_email_task", raised |-> None,
                                email_id |-> Head(tasks[c]).email_id,
                                outcome |-> outcome]
           /\ tasks' = [tasks EXCEPT ![c] = Tail(@)]
    /\ UNCHANGED <<lekAtEnd, filters, strategy, kind, limit, calls, eventLog, workers>>

NextMail == SendBulkEmail \/ RunEmailTask

SpecMail == InitMail /\ [][NextMail]_vars

\* Gatherings are created, the store may fail once during the counter
\* updates, and a campaign is dispatched to the registered persons once the
\* gatherings exist.
DispatchAfterEvents ==
    /\ Len(eventLog) = MaxEvents
    /\ calls = <<>>
    /\ Dispatch([subject |-> "Hello", utmCampaign |-> "spring"])

NextFault == CreateEvent \/ CreateEventUpdateFails \/ DispatchAfterEvents

SpecFault == InitEvent /\ [][NextFault]_vars

(***************************************************************************)
(* The claims about the index selector.                                    *)
(***************************************************************************)
\* The recognized filters a filter set holds, by the selector's names.
Recognized(f) ==
    (DOMAIN f \cap {"company", "jobTitle", "hostedEventCount", "attendedEventCount"})
        \cup (IF {"city", "state"} \subseteq DOMAIN f THEN {"location"} ELSE {})

DedicatedIndex(t) ==
    CASE t = "company" -> "GSI_ByCompany"
      [] t = "jobTitle" -> "GSI_ByJobTitle"
      [] t = "location" -> "GSI_ByLocation"
      [] t = "hostedEventCount" -> "GSI_UsersByHostedCount"
      [] t = "attendedEventCount" -> "GSI_UsersByAttendedCount"

\* C4: with two or more recognized filters the strategy is gsi_query, the
\* primary filter has the lowest selectivity of those present, and every
\* other recognized filter present is in the residual list.
C4_LowestSelectivityPrimary ==
    (strategy # NotRun /\ Cardinality(Recognized(filters)) >= 2) =>
        /\ strategy.type = "gsi_query"
        /\ strategy.primary_filter.type \in Recognized(filters)
        /\ \A t \in Recognized(filters) :
               strategy.primary_filter.selectivity <= index_selectivity[t]
        /\ {strategy.secondary_filters[i].type :
                i \in DOMAIN strategy.secondary_filters}
               = Recognized(filters) \ {strategy.primary_filter.type}

C4_Witness ==
    /\ strategy # NotRun
    /\ Recognized(filters) = {"company", "jobTitle", "location"}
    /\ strategy.primary_filter.type = "location"

\* C5: with exactly one recognized filter, its own index is the primary and
\* the residual list is empty.
C5_SingleFilterOwnIndex ==
    (strategy # NotRun /\ Cardinality(Recognized(filters)) = 1) =>
        /\ strategy.type = "gsi_query"
        /\ {strategy.primary_filter.type} = Recognized(filters)
        /\ strategy.primary_filter.index = DedicatedIndex(strategy.primary_filter.type)
        /\ strategy.secondary_filters = <<>>

C5_Witness ==
    /\ strategy # NotRun
    /\ Recognized(filters) = {"jobTitle"}
    /\ strategy.primary_filter.index = "GSI_ByJobTitle"

\* C6: the location index is chosen only when city and state are both
\* present; only city, only state, only unrecognized keys or no filter at all
\* resolve to the scan strategy.
C6_LocationNeedsBoth ==
    strategy # NotRun =>
        /\ (strategy.type = "gsi_query" /\ strategy.primary_filter.type = "location")
               => {"city", "state"} \subseteq DOMAIN filters
        /\ (strategy.type = "gsi_query" /\ strategy.primary_filter.index = "GSI_ByLocation")
               => {"city", "state"} \subseteq DOMAIN filters
        /\ (DOMAIN filters \cap {"company", "jobTitle", "hostedEventCount",
                                  "attendedEventCount"} = {}
              /\ ~({"city", "state"} \subseteq DOMAIN filters))
               => strategy.type = "scan"

C6_Witness ==
    /\ strategy # NotRun
    /\ DOMAIN filters = {"city"}
    /\ strategy.type = "scan"

(***************************************************************************)
(* The claims about gathering creation.                                    *)
(***************************************************************************)
\* The ids that have a Person profile row.
ProfileIds(tbl) == {tbl[i].id : i \in {j \in DOMAIN tbl : tbl[j].SK = <<"PROFILE">>}}

\* C2: a create_event call with a host or attendee id that has no Person
\* profile row raises, and the store is left as it was: no Gathering row and
\* no edge row of the call is written, not even for the ids that exist.
C2_MissingPersonNoRows ==
    [][(result' # result /\ result'.type = "create_event"
          /\ result'.referenced \ ProfileIds(table) # {})
         => (result'.raised # None /\ table' = table)]_vars

C2_Witness ==
    /\ result.type = "create_event"
    /\ result.raised = "Transaction failed: User not found or duplicate entry"
    /\ result.referenced = {1, 3}
    /\ Len(eventLog) = 1

\* The number of logged events that list p under `role`.
TimesListed(p, role) ==
    Cardinality({i \in DOMAIN eventLog : p \in Range(eventLog[i][role])})

\* C3: after any sequence of create_event calls that returned, each person's
\* hostedEventCount is the number of events that listed the person as host,
\* attendedEventCount the number that listed the person as attendee, and the
\* hosted-count and attended-count sort keys carry those counts as ten
\* zero-padded digits.
C3_CountersMatchEvents ==
    \A p \in UserIds :
        LET row == RowAt(table, UserKey(p))
            digits(n) == [i \in 1..10 |-> IF i = 10 THEN n ELSE 0]
        IN /\ row.hostedEventCount = TimesListed(p, "hostIds")
           /\ row.attendedEventCount = TimesListed(p, "attendeeIds")
           /\ row.GSI_UsersByHostedCount_SK
                  = <<"HOSTED_COUNT", digits(TimesListed(p, "hostIds")), "USER", p>>
           /\ row.GSI_UsersByAttendedCount_SK
                  = <<"ATTENDED_COUNT", digits(TimesListed(p, "attendeeIds")), "USER", p>>

C3_Witness ==
    /\ Len(eventLog) = 2
    /\ TimesListed(1, "hostIds") = 2
    /\ TimesListed(2, "attendeeIds") = 2
    /\ RowAt(table, UserKey(1)).GSI_UsersByHostedCount_SK
           = <<"HOSTED_COUNT", <<0, 0, 0, 0, 0, 0, 0, 0, 0, 2>>, "USER", 1>>

(***************************************************************************)
(* The claims about paginated reads, over SpecPage.                        *)
(***************************************************************************)
RECURSIVE Concat(_)
Concat(pages) ==
    IF pages = <<>> THEN <<>> ELSE Head(pages) \o Concat(Tail(pages))

Ids(items) == {items[i].id : i \in DOMAIN items}

PersonRows(tbl) == SelectSeq(tbl, LAMBDA row : row.SK = <<"PROFILE">>)

\* One pass without pages: every matching Person row, in the order of the
\* index the selector picked, or of the table when it picked the scan.
FullPass(tbl, f) ==
    LET strat == _choose_best_strategy(f)
        order == IF strat.type = "gsi_query"
                 THEN IndexPartition(tbl, strat.primary_filter.pk_attr,
                                     IndexSKAttr(strat.primary_filter.index),
                                     strat.primary_filter.pk)
                 ELSE PersonRows(tbl)
    IN CleanAll(SelectSeq(order, LAMBDA row : _matches_all_filters(row, f)))

\* A session that began with no token and followed the tokens to the end.
SessionComplete ==
    /\ calls # <<>>
    /\ calls[1].token = NoToken
    /\ \A i \in DOMAIN calls : calls[i].raised = None
    /\ Last(calls).next_token = NoToken

\* C1: over an unchanging table, the pages filter_users returns from the call
\* with no token to the call that returns no token, put end to end, are the
\* matching Person rows of one pass without pages: none skipped, none twice.
C1_PagesEqualFullPass ==
    (kind = "users" /\ SessionComplete) =>
        Concat([i \in DOMAIN calls |-> calls[i].items]) = FullPass(table, filters)

\* The rows a scan has still to read when it is called with this token.
RowsAfterToken(tok) ==
    LET esk == ParseToken(tok)
    IN Drop(table, IF esk = NoKey THEN 0 ELSE PosOfKey(table, esk))

\* C7 as stated: with no recognized filter the read is a scan and every
\* Person it returns satisfies every filter the caller supplied, a lone city
\* or a lone state among them.
C7_ScanAppliesEveryFilter ==
    (kind = "users" /\ Recognized(filters) = {}) =>
        \A i \in DOMAIN calls : \A j \in DOMAIN calls[i].items :
            \A k \in DOMAIN filters : Get(calls[i].items[j], k, None) = filters[k]

\* C7: with no recognized filter the read is a scan that checks nothing: an
\* unrecognized key, a lone city or a lone state is ignored, and the page is
\* the next Person rows of the table after the cursor, up to the page size.
C7_ScanIgnoresUnrecognized ==
    (kind = "users" /\ Recognized(filters) = {}) =>
        /\ _choose_best_strategy(filters).type = "scan"
        /\ \A i \in DOMAIN calls :
               calls[i].raised = None =>
                   calls[i].items =
                       CleanAll(Take(PersonRows(RowsAfterToken(calls[i].token)), limit))

C7_Witness ==
    /\ kind = "users" /\ filters = [city |-> "Austin"]
    /\ \E i \in DOMAIN calls : \E j \in DOMAIN calls[i].items :
           calls[i].items[j].city = "San Francisco"

\* C8: filter_users returns a token only when the page holds exactly the page
\* size and the store's last response carried a cursor; with no cursor, also
\* when the data ends exactly at the page boundary, or with a short page,
\* there is no token.
C8_TokenOnlyWhenFullAndCursor ==
    kind = "users" =>
        \A i \in DOMAIN calls :
            calls[i].raised = None =>
                /\ calls[i].next_token # NoToken =>
                       /\ Len(calls[i].items) = limit
                       /\ calls[i].cursor # NoKey
                       /\ calls[i].next_token = EncodeToken(calls[i].cursor)
                /\ (calls[i].cursor = NoKey \/ Len(calls[i].items) < limit) =>
                       calls[i].next_token = NoToken

\* The data ends exactly at the page boundary, after a page that had a token.
C8_Witness ==
    /\ kind = "users" /\ Len(calls) = 2
    /\ calls[1].next_token # NoToken
    /\ Len(calls[2].items) = limit
    /\ calls[2].cursor = NoKey
    /\ calls[2].next_token = NoToken

\* What the same request returns when it carries no token.
FirstPage ==
    IF kind = "users"
    THEN filter_users(table, filters, limit, NoToken)
    ELSE get_analytics(table, filters, limit, NoToken)

\* C9: filter_users and get_analytics, given a token that cannot be decoded,
\* raise nothing and return the items and the next token of the call with no
\* token.
C9_UndecodableTokenRestarts ==
    \A i \in DOMAIN calls :
        calls[i].token \in UndecodableTokens =>
            /\ calls[i].raised = None
            /\ calls[i].items = FirstPage.items
            /\ calls[i].next_token = FirstPage.next_token

C9_Witness ==
    /\ kind = "analytics" /\ Len(calls) = 1
    /\ calls[1].token = b64encode(Raw)
    /\ calls[1].items # <<>>
    /\ calls[1].next_token # NoToken

\* C10: two pages in a row of filter_users, the second asked for with the
\* token of the first and the table unchanged, share no Person id; two pages
\* in a row of get_analytics share no email record id.
C10_SuccessivePagesDisjoint ==
    \A i \in DOMAIN calls :
        (i > 1 /\ calls[i].token = calls[i - 1].next_token
               /\ calls[i].raised = None /\ calls[i - 1].raised = None)
            => Ids(calls[i - 1].items) \cap Ids(calls[i].items) = {}

C10_Witness ==
    /\ kind = "users" /\ filters = [company |-> "Tech Corp"]
    /\ Len(calls) = 2
    /\ calls[2].token = calls[1].next_token
    /\ calls[1].items # <<>> /\ calls[2].items # <<>>



(***************************************************************************)
(* The claims about failures of create_event, over SpecEvent and           *)
(* SpecFault.                                                              *)
(***************************************************************************)
\* C11: create_event with the same person id more than once in hostIds or in
\* attendeeIds is rejected as a failed precondition: it raises the
\* transaction error, writes no Gathering or edge row and adds to no counter.
C11_RepeatedIdIsTransactionError ==
    [][(result' # result /\ result'.type = "create_event" /\ result'.repeated)
         => (/\ result'.raised \in
                    {"Transaction failed: User not found or duplicate entry",
                     "Transaction failed: Conditional check failed"}
             /\ table' = table)]_vars

\* How many times the list names the id.
Occurrences(ids, p) == Cardinality({i \in DOMAIN ids : ids[i] = p})

\* C12: when an update of a counter or of a sort key fails after the
\* transaction has committed, create_event raises nothing and returns the
\* Gathering view, and the counters of the other persons are still updated.
C12_UpdateFailureNotRaised ==
    [][(result' # result /\ "failed_call" \in DOMAIN result')
         => (/\ result'.raised = None
             /\ result'.value # EmptyDict
             /\ LET e == eventLog'[Len(eventLog')]
                IN \A p \in result'.referenced \ {result'.failed_call.user_id} :
                       LET before == RowAt(table, UserKey(p))
                           after == RowAt(table', UserKey(p))
                       IN /\ after.hostedEventCount =
                               before.hostedEventCount + Occurrences(e.hostIds, p)
                          /\ after.attendedEventCount =
                               before.attendedEventCount + Occurrences(e.attendeeIds, p))]_vars

EventKey(event_id) == [PK |-> <<"EVENT", event_id>>, SK |-> <<"DETAIL">>]

\* C13: the attendeeCount of a Gathering, in the value create_event returns
\* and in the stored row, is the length of the attendeeIds it was called
\* with, and stays so through later create_event calls and counter updates.
C13_AttendeeCountIsInputLength ==
    /\ \A i \in DOMAIN eventLog :
           /\ HasKey(table, EventKey(i))
           /\ RowAt(table, EventKey(i)).attendeeCount = Len(eventLog[i].attendeeIds)
    /\ (result.type = "create_event" /\ result.raised = None) =>
           result.value.attendeeCount = Len(eventLog[Len(eventLog)].attendeeIds)

C13_Witness ==
    /\ Len(eventLog) = 2
    /\ eventLog[1].attendeeIds = <<1, 2>>
    /\ eventLog[2].attendeeIds = <<2>>
    /\ "failed_call" \in DOMAIN result
    /\ RowAt(table, EventKey(1)).attendeeCount = 2
    /\ calls # <<>> /\ calls[1].value.emailsQueued > 0


(***************************************************************************)
(* create_event calls running side by side, one store operation at a time. *)
(* The transaction is one operation of the store; after it, every          *)
(* update_item of increment_hosted_count and increment_attended_count is   *)
(* an operation of its own: the ADD, whose returned count the call holds,  *)
(* then the SET that writes the held count into the sort key(s). A call    *)
(* may stop at any point after its transaction (the process dies, or an    *)
(* update_item raises).                                                    *)
(***************************************************************************)
MaxCalls == 2
MaxNamed == 1

NamedLists == UNION {[1..k -> UserIds \cup UnknownUserIds] : k \in 0..MaxNamed}

\* A slip: the counters are updated whatever the transaction did.
CallsAfterAnyOutcome(tx, event_data) == UpdateCalls(event_data)

\* The update_item calls create_event goes on to make: none when
\* transact_write_items raised.
CallsAfter(tx, event_data) ==
    IF tx.raised = None THEN UpdateCalls(event_data) ELSE <<>>

\* One update_item of a running call: the ADD, or the SET with the count
\* the call holds from its ADD (new_count, a local of increment_*_count, 0
\* outside it).
ApplyHeldUpdateCall(tbl, c, new_count) ==
    CASE c.step = "ADD" -> ApplyUpdateCall(tbl, c)
      [] c.role = "host" /\ c.step = "SET" -> SetHostedSortKey(tbl, c.user_id, new_count)
      [] c.role = "attendee" /\ c.step = "SET" -> SetAttendedSortKeys(tbl, c.user_id, new_count)

CounterAttr(role) == IF role = "host" THEN "hostedEventCount" ELSE "attendedEventCount"

\* The sort key(s) of the counter carry the count the row holds.
KeyCurrent(tbl, role, user_id) ==
    /\ HasKey(tbl, UserKey(user_id))
    /\ LET row == RowAt(tbl, UserKey(user_id))
           hosted == HostedSortKey(Get(row, "hostedEventCount", 0), user_id)
           attended == AttendedSortKey(Get(row, "attendedEventCount", 0), user_id)
       IN IF role = "host"
          THEN Get(row, "GSI_UsersByHostedCount_SK", None) = hosted
          ELSE /\ Get(row, "GSI_UsersByAttendedCount_SK", None) = attended
               /\ Get(row, "GSI_UsersByActivity_SK", None) = attended

\* The call is between the ADD and the SET of this person's counter.
BetweenAddAndSet(w, role, user_id) ==
    w.todo # <<>> /\ Head(w.todo) = [role |-> role, user_id |-> user_id, step |-> "SET"]

InitConc ==
    /\ table = RegisterAll(<<>>, UserIds)
    /\ lekAtEnd = TRUE
    /\ filters = EmptyDict
    /\ strategy = NotRun
    /\ kind = "events"
    /\ limit = 0
    /\ calls = <<>>
    /\ result = NotRun
    /\ eventLog = <<>>
    /\ tasks = <<>>
    /\ workers = <<>>

\* A call starts: it runs its transaction and, when that commits, has the
\* counter updates before it; `raised` is what the call has raised so far,
\* hostIds and attendeeIds the persons whose edges the call has stored.
\* `alone` and `was_stale` record, for the last
\* increment the call is in, whether no other increment of the same counter
\* overlapped it and whether the sort key was stale when it began.
BeginCreateEvent ==
    /\ Len(workers) < MaxCalls
    /\ \E hostIds \in NamedLists, attendeeIds \in NamedLists :
           /\ Len(hostIds) + Len(attendeeIds) <= MaxNamed
           /\ LET event_data == [slug |-> "meetup", startAt |-> 1, hostIds |-> hostIds,
                                 attendeeIds |-> attendeeIds]
                  event_id == FreshEventId(table)
              IN \E tx \in {TransactWriteItems(table, TransactItems(event_id, event_data))} :
                    /\ table' = tx.table
                    /\ workers' = Append(workers,
                           [event_id |-> event_id,
                            hostIds |-> IF tx.raised = None THEN hostIds ELSE <<>>,
                            attendeeIds |-> IF tx.raised = None THEN attendeeIds ELSE <<>>,
                            raised |-> IF tx.raised = None THEN None
                                       ELSE TransactionErrorMessage(tx),
                            todo |-> CallsAfter(tx, event_data), new_count |-> 0,
                            alone |-> TRUE, was_stale |-> FALSE])
    /\ UNCHANGED <<lekAtEnd, filters, strategy, kind, limit, calls, result, eventLog, tasks>>

\* A running call makes its next update_item.
UpdateItem ==
    \E p \in DOMAIN workers :
        /\ workers[p].todo # <<>>
        /\ LET w == workers[p]
               c == Head(w.todo)
               others == {q \in DOMAIN workers \ {p} :
                             BetweenAddAndSet(workers[q], c.role, c.user_id)}
           IN /\ table' = ApplyHeldUpdateCall(table, c, w.new_count)
              /\ workers' =
                    [q \in DOMAIN workers |->
                        IF q = p
                        THEN IF c.step = "ADD"
                             THEN [w EXCEPT !.todo = Tail(@),
                                            !.new_count =
                                                RowAt(table', UserKey(c.user_id))[CounterAttr(c.role)],
                                            !.alone = (others = {}),
                                            !.was_stale = ~KeyCurrent(table, c.role, c.user_id)]
                             ELSE [w EXCEPT !.todo = Tail(@), !.new_count = 0]
                        ELSE IF c.step = "ADD" /\ q \in others
                             THEN [workers[q] EXCEPT !.alone = FALSE]
                             ELSE workers[q]]
    /\ UNCHANGED <<lekAtEnd, filters, strategy, kind, limit, calls, result, eventLog, tasks>>

\* A running call stops before its next update_item, which raised (or the
\* process died); at most one call of a run does.
StopCall ==
    \E p \in DOMAIN workers :
        /\ \A q \in DOMAIN workers : workers[q].raised = None
                                      \/ workers[q].raised \in TransactionErrorMessages
        /\ workers[p].todo # <<>>
        /\ workers' = [workers EXCEPT ![p].todo = <<>>,
                                      ![p].raised = IncrementErrorMessage(Head(workers[p].todo))]
    /\ UNCHANGED <<table, lekAtEnd, filters, strategy, kind, limit, calls, result, eventLog,
                   tasks>>

NextConc == BeginCreateEvent \/ UpdateItem \/ StopCall

SpecConc == InitConc /\ [][NextConc]_vars

(***************************************************************************)
(* Analytics reads over a table of one person and the email records of     *)
(* three campaigns: a session picks the table, the arguments and a page    *)
(* size, reads the first page and follows the tokens it is given.          *)
(***************************************************************************)
MaxMails == 6

MailWords == UNION {[1..n -> {"Sent", "Queued", "Sale"}] : n \in 0..MaxMails}

MailTables == {TableOf(<<"Alice">> \o w) : w \in MailWords}

AnalyticsQueries ==
    {[utm_campaign |-> "spring"],
     [utm_campaign |-> "winter"],
     [status |-> "sent", utm_campaign |-> "spring"],
     [utm_medium |-> "email", status |-> ""],
     [start_date |-> IsoUtc(3), end_date |-> IsoUtc(4)]}

InitAnalytics ==
    /\ lekAtEnd \in BOOLEAN
    /\ limit \in 1..MaxLimit
    /\ kind = "analytics"
    /\ table \in MailTables
    /\ filters \in AnalyticsQueries
    /\ strategy = NotRun
    /\ calls = <<>>
    /\ result = NotRun
    /\ eventLog = <<>>
    /\ tasks = <<>>
    /\ workers = <<>>

NextAnalytics == GetAnalyticsFirstPage \/ GetAnalyticsNextPage

SpecAnalytics == InitAnalytics /\ [][NextAnalytics]_vars

(***************************************************************************)
(* Analytics reads with a creation-time range: the table holds one person  *)
(* and up to two email records whose createdAt is a timestamp with or      *)
(* without an offset, a text that is no timestamp, or missing; the range   *)
(* ends are drawn from the same texts.                                     *)
(***************************************************************************)
MaxDate == 3

\* A text datetime.fromisoformat refuses.
Garbled == [ok |-> FALSE, aware |-> TRUE, t |-> 0]

\* A timestamp written without an offset.
Naive(t) == [ok |-> TRUE, aware |-> FALSE, t |-> t]

DateTexts == {IsoUtc(t) : t \in 1..MaxDate} \cup {Naive(2), Garbled}

\* The email record number i, createdAt as given, or without createdAt.
DatedRecord(i, createdAt) ==
    LET r == analytics_item(i, [id |-> 1, email |-> Alice.email], "campaign-1", "Hello",
                            EmptyDict, createdAt)
    IN IF createdAt = NoDate THEN [k \in DOMAIN r \ {"createdAt"} |-> r[k]] ELSE r

DatedTables ==
    {<<create_user_item(1, Alice), DatedRecord(2, d)>> : d \in DateTexts \cup {NoDate}}
    \cup {<<create_user_item(1, Alice), DatedRecord(2, d), DatedRecord(3, e)>> :
              d \in DateTexts \cup {NoDate}, e \in DateTexts}

DateQueries ==
    {q \in UNION {[D -> DateTexts] : D \in SUBSET {"start_date", "end_date"}} : q # <<>>}

InitDates ==
    /\ lekAtEnd \in BOOLEAN
    /\ limit = MaxLimit
    /\ kind = "analytics"
    /\ table \in DatedTables
    /\ filters \in DateQueries
    /\ strategy = NotRun
    /\ calls = <<>>
    /\ result = NotRun
    /\ eventLog = <<>>
    /\ tasks = <<>>
    /\ workers = <<>>

NextDates == GetAnalyticsFirstPage

SpecDates == InitDates /\ [][NextDates]_vars

(***************************************************************************)
(* The claims about campaigns, over SpecMail.                              *)
(***************************************************************************)
IsEmailRecord(row) == row.SK = <<"ANALYTICS">>

RecordsOf(tbl, campaign_id) ==
    {i \in DOMAIN tbl : IsEmailRecord(tbl[i]) /\ tbl[i].campaignId = campaign_id}

\* C14: a dispatch whose filters match exactly K persons, K of any size,
\* creates exactly K email records carrying the campaign id it returns, and
\* reports emailsQueued = K.
C14_OneRecordPerMatchingPerson ==
    \A c \in DOMAIN calls :
        LET K == Len(FullPass(table, EmailFilters(calls[c].request)))
        IN /\ calls[c].value.emailsQueued = K
           /\ Cardinality(RecordsOf(table, calls[c].value.campaignId)) = K

TaskRan == result' # result /\ result'.type = "process_email_task"

OthersUntouched ==
    \A i \in DOMAIN table :
        TableKeyOf(table[i]) # EmailKey(result'.email_id) => table'[i] = table[i]

FailureText(outcome) ==
    IF "throws" \in DOMAIN outcome THEN outcome.throws
    ELSE "Email service returned failure"

C17_DeliveryAfterDispatch ==
    [][/\ calls' # calls =>
            LET v == calls'[Len(calls')].value
                recs == RecordsOf(table', v.campaignId)
            IN /\ RecordsOf(table, v.campaignId) = {}
               /\ Cardinality(recs) = v.emailsQueued
               /\ \A i \in recs : table'[i].status = "queued"
               /\ Len(tasks'[Len(tasks')]) = v.emailsQueued
               /\ \A i \in DOMAIN table : table'[i] = table[i]
       /\ \A i \in DOMAIN table :
              (IsEmailRecord(table[i]) /\ table'[i] # table[i]) =>
                  /\ calls' = calls
                  /\ \E c \in DOMAIN calls :
                         /\ calls[c].value.campaignId = table[i].campaignId
                         /\ calls[c].value.emailsQueued =
                                Cardinality(RecordsOf(table, table[i].campaignId))]_vars

C17_Witness ==
    /\ Len(calls) = 1 /\ calls[1].value.emailsQueued = 3
    /\ Len(tasks[1]) = 2
    /\ Cardinality({i \in RecordsOf(table, 1) : table[i].status = "queued"}) = 2
    /\ result.type = "process_email_task"

(***************************************************************************)
(* The claims about analytics reads, over SpecAnalytics.                   *)
(***************************************************************************)
TextFilterKeys == {"status", "utmCampaign", "utmSource", "utmMedium"}

\* C18: every record get_analytics returns satisfies all supplied filters at
\* once: each of status, utmCampaign, utmSource, utmMedium that is supplied
\* equals the stored field exactly (a record without the field, or with a
\* longer value containing the wanted one, is not returned), and createdAt
\* lies within the requested range.
C18_ReturnedRecordsMatchAllFilters ==
    \A c \in DOMAIN calls :
        calls[c].raised = None =>
            LET f == AnalyticsFilters(filters)
            IN \A i \in DOMAIN calls[c].items :
                   LET it == calls[c].items[i]
                       stored == RowAt(table, EmailKey(it.id))
                   IN /\ \A k \in TextFilterKeys \cap DOMAIN f :
                             k \in DOMAIN stored /\ stored[k] = f[k] /\ it[k] = f[k]
                      /\ "startDate" \in DOMAIN f => it.createdAt.t >= f["startDate"].t
                      /\ "endDate" \in DOMAIN f => it.createdAt.t <= f["endDate"].t

\* A page was returned although the table also holds a record without the
\* wanted field and a record whose value only contains it.
C18_Witness ==
    /\ filters = [status |-> "sent", utm_campaign |-> "spring"]
    /\ calls # <<>> /\ calls[1].raised = None /\ calls[1].items # <<>>
    /\ \E i \in DOMAIN table : IsEmailRecord(table[i]) /\ "utmCampaign" \notin DOMAIN table[i]
    /\ \E i \in DOMAIN table :
           IsEmailRecord(table[i]) /\ Get(table[i], "utmCampaign", None) = "spring-sale"

NoRecordMatches ==
    \A i \in DOMAIN table :
        IsEmailRecord(table[i]) => ~_matches_analytics_filters(table[i], AnalyticsFilters(filters))

\* C19: when no record matches the filters, get_analytics returns no
\* record, count 0, total 0, hasMore false and no nextToken, whatever the
\* table size and the page size.
C19_NoMatchIsEmptyAndFinal ==
    \A c \in DOMAIN calls :
        NoRecordMatches =>
            /\ calls[c].raised = None
            /\ calls[c].items = <<>>
            /\ calls[c].count = 0
            /\ calls[c].total = 0
            /\ calls[c].hasMore = FALSE
            /\ calls[c].next_token = NoToken

\* The table is longer than the first batch, so the loop scanned again.
C19_Witness ==
    /\ NoRecordMatches
    /\ calls # <<>> /\ calls[1].items = <<>>
    /\ Len(table) > limit * AnalyticsOverfetch
    /\ \E i \in DOMAIN table : IsEmailRecord(table[i])

\* C20: within every page get_analytics returns, createdAt never increases
\* from one record to the next.
C20_PageNewestFirst ==
    \A c \in DOMAIN calls :
        calls[c].raised = None =>
            \A i \in 1..(Len(calls[c].items) - 1) :
                calls[c].items[i].createdAt.t >= calls[c].items[i + 1].createdAt.t

\* The page holds two records that the scan met in the other order.
C20_Witness ==
    /\ calls # <<>> /\ calls[1].raised = None /\ Len(calls[1].items) = 2
    /\ calls[1].items[1].createdAt.t > calls[1].items[2].createdAt.t
    /\ PosOfKey(table, EmailKey(calls[1].items[1].id))
           > PosOfKey(table, EmailKey(calls[1].items[2].id))

MatchingRecords ==
    {i \in DOMAIN table :
        IsEmailRecord(table[i])
        /\ _matches_analytics_filters(table[i], AnalyticsFilters(filters))}

\* C21: over an unchanged table, the pages get_analytics returns from the
\* call with no token to the call that reports hasMore = false hold every
\* record matching the filters exactly once.
C21_AnalyticsPagesCoverMatches ==
    (SessionComplete /\ Last(calls).hasMore = FALSE) =>
        LET all == Concat([c \in DOMAIN calls |-> calls[c].items])
        IN /\ Ids(all) = {table[i].id : i \in MatchingRecords}
           /\ Len(all) = Cardinality(MatchingRecords)

CleanDefaults == {"utmCampaign", "utmSource", "utmMedium", "sentAt", "errorMessage"}

\* C25: every record get_analytics returns has the keys utmCampaign,
\* utmSource, utmMedium, sentAt and errorMessage, null where the stored
\* record has none and the stored value otherwise, and has neither PK nor SK.
C25_RecordsAreNormalized ==
    \A c \in DOMAIN calls :
        calls[c].raised = None =>
            \A i \in DOMAIN calls[c].items :
                LET it == calls[c].items[i]
                    stored == RowAt(table, EmailKey(it.id))
                IN /\ CleanDefaults \subseteq DOMAIN it
                   /\ {"PK", "SK"} \cap DOMAIN it = {}
                   /\ \A k \in CleanDefaults :
                          it[k] = IF k \in DOMAIN stored THEN stored[k]
                                  ELSE IF k = "sentAt" THEN NoDate ELSE None

\* A page holds a record stored without any optional field and one stored
\* with utm fields and sentAt.
C25_Witness ==
    /\ calls # <<>> /\ calls[1].raised = None
    /\ \E i \in DOMAIN calls[1].items :
           CleanDefaults \cap DOMAIN RowAt(table, EmailKey(calls[1].items[i].id)) = {}
    /\ \E i \in DOMAIN calls[1].items :
           {"utmCampaign", "sentAt"} \subseteq DOMAIN RowAt(table, EmailKey(calls[1].items[i].id))

(***************************************************************************)
(* The claims about the creation-time range, over SpecDates.               *)
(***************************************************************************)
\* The record has a createdAt that parses.
Dated(row) == "createdAt" \in DOMAIN row /\ row.createdAt.ok

\* Both ends of the range, where given, are timestamps that can be compared
\* with the record's, and the record's lies between them, ends included.
WithinRange(row, q) ==
    \A k \in DOMAIN q :
        /\ q[k].ok /\ q[k].aware = row.createdAt.aware
        /\ k = "start_date" => q[k].t <= row.createdAt.t
        /\ k = "end_date" => row.createdAt.t <= q[k].t

\* C23: the creation-time filter is inclusive at both ends, so a record
\* whose createdAt equals startDate or endDate is returned; a record whose
\* createdAt is missing or does not parse is left out, and no error is raised.
C23_RangeInclusiveBadDatesExcluded ==
    \A c \in DOMAIN calls :
        /\ calls[c].raised = None
        /\ \A i \in DOMAIN table :
               IsEmailRecord(table[i]) =>
                   /\ ~Dated(table[i]) => table[i].id \notin Ids(calls[c].items)
                   /\ (Dated(table[i]) /\ WithinRange(table[i], filters))
                          => table[i].id \in Ids(calls[c].items)

\* A record created exactly at the start of the range was returned from a
\* table that also holds a record with no usable createdAt.
C23_Witness ==
    /\ calls # <<>>
    /\ "start_date" \in DOMAIN filters /\ filters["start_date"].ok
    /\ \E i \in DOMAIN table :
           /\ IsEmailRecord(table[i]) /\ Dated(table[i])
           /\ table[i].createdAt = filters["start_date"]
           /\ table[i].id \in Ids(calls[1].items)
    /\ \E i \in DOMAIN table : IsEmailRecord(table[i]) /\ ~Dated(table[i])

\* C24: when startDate or endDate is itself no date, get_analytics fails
\* instead of returning a result.
C24_UnparsableRangeFails ==
    (\E k \in DOMAIN filters : ~filters[k].ok) =>
        \A c \in DOMAIN calls : calls[c].raised # None

(***************************************************************************)
(* The rows create_event adds, over SpecEvent.                             *)
(***************************************************************************)
KeysOf(tbl) == {TableKeyOf(tbl[i]) : i \in DOMAIN tbl}

HostEdgeKey(event_id, person) == [PK |-> <<"EVENT", event_id>>, SK |-> <<"HOST", person>>]

AttendsEdgeKey(event_id, person) == [PK |-> <<"USER", person>>, SK |-> <<"ATTENDS", event_id>>]

\* C29: a create_event that succeeds with N distinct existing hosts and M
\* distinct existing attendees adds exactly 1 + N + M rows: the Gathering
\* row, one host edge (EVENT#id, HOST#person) for each host and one attends
\* edge (USER#person, ATTENDS#id) for each attendee; it adds no other row
\* and removes none.
C29_SuccessAddsGatheringAndEdges ==
    [][Len(eventLog') = Len(eventLog) + 1 =>
         LET e == eventLog'[Len(eventLog')]
             id == result'.value.id
             added == {EventKey(id)}
                         \cup {HostEdgeKey(id, e.hostIds[i]) : i \in DOMAIN e.hostIds}
                         \cup {AttendsEdgeKey(id, e.attendeeIds[i]) : i \in DOMAIN e.attendeeIds}
         IN /\ result'.raised = None
            /\ KeysOf(table') = KeysOf(table) \cup added
            /\ KeysOf(table) \cap added = {}
            /\ Cardinality(added) = 1 + Len(e.hostIds) + Len(e.attendeeIds)
            /\ Len(table') = Len(table) + 1 + Len(e.hostIds) + Len(e.attendeeIds)]_vars

C29_Witness ==
    /\ result.type = "create_event" /\ result.raised = None
    /\ Len(eventLog) = 2
    /\ Len(eventLog[2].hostIds) = 1 /\ Len(eventLog[2].attendeeIds) = 1
    /\ HasKey(table, HostEdgeKey(2, eventLog[2].hostIds[1]))
    /\ HasKey(table, AttendsEdgeKey(2, eventLog[2].attendeeIds[1]))

(***************************************************************************)
(* The claims about create_event calls running side by side, over SpecConc.*)
(***************************************************************************)
\* Every call that began has made all its updates: none is running, none
\* stopped on the way.
Committed(w) == w.raised \notin TransactionErrorMessages

Stopped(w) == w.raised # None /\ Committed(w)

AllFinished == \A p \in DOMAIN workers : workers[p].todo = <<>> /\ ~Stopped(workers[p])

\* The committed calls that name the person in this list.
CallsNaming(person, list) ==
    {p \in DOMAIN workers : Committed(workers[p]) /\ person \in Range(workers[p][list])}

\* C26: when create_event calls that name the same person have run side by
\* side and all have finished, the person's counters are the initial 0 plus
\* the number of those calls: no increment is lost, however the store
\* operations interleaved.
C26_NoIncrementLost ==
    AllFinished =>
        \A person \in UserIds :
            LET row == RowAt(table, UserKey(person))
            IN /\ row.hostedEventCount = Cardinality(CallsNaming(person, "hostIds"))
               /\ row.attendedEventCount = Cardinality(CallsNaming(person, "attendeeIds"))

\* Two calls hosted by person 1 have finished, and their updates
\* interleaved: the sort key carries the count of the call that added first.
C26_Witness ==
    /\ AllFinished
    /\ Cardinality(CallsNaming(1, "hostIds")) = 2
    /\ ~KeyCurrent(table, "host", 1)

\* C27: whenever every started create_event call has finished, each
\* person's hosted-count sort key carries the zero-padded hostedEventCount
\* and the attended-count sort key the zero-padded attendedEventCount.
C27_KeysCurrentWhenQuiet ==
    AllFinished =>
        \A person \in UserIds :
            KeyCurrent(table, "host", person) /\ KeyCurrent(table, "attendee", person)

\* C28: an increment that runs its ADD and its SET with no other increment
\* of the same counter overlapping it leaves the sort key carrying the
\* current count, also when the key was stale before.
C28_LoneIncrementRepairsKey ==
    [][\A p \in DOMAIN workers :
           (p \in DOMAIN workers' /\ workers[p].todo # <<>>
               /\ Head(workers[p].todo).step = "SET"
               /\ workers'[p].todo = Tail(workers[p].todo)
               /\ workers'[p].raised = workers[p].raised
               /\ workers[p].alone)
              => KeyCurrent(table', Head(workers[p].todo).role,
                            Head(workers[p].todo).user_id)]_vars

\* A call hosted by person 1 has finished its increment, which ran alone
\* and began with a stale key left by a call that stopped after its ADD;
\* the key now carries the count 2.
C28_Witness ==
    /\ \E p \in DOMAIN workers :
           /\ workers[p].todo = <<>> /\ workers[p].raised = None
           /\ workers[p].hostIds = <<1>> /\ workers[p].attendeeIds = <<>>
           /\ workers[p].alone /\ workers[p].was_stale
    /\ KeyCurrent(table, "host", 1)
    /\ RowAt(table, UserKey(1)).hostedEventCount = 2

HostEdgesOf(person) ==
    {i \in DOMAIN table : table[i].SK = <<"HOST", person>>}

AttendsEdgesOf(person) ==
    {i \in DOMAIN table : table[i].PK = <<"USER", person>> /\ table[i].SK[1] = "ATTENDS"}

\* C30: in every state, after a failed transaction and after a call stopped
\* anywhere in its counter updates included, a person's hostedEventCount is
\* at most the number of host edge rows naming the person and the
\* attendedEventCount at most the number of attends edge rows: no counter is
\* raised for a gathering whose transaction did not commit.
C30_CountersBoundedByEdges ==
    \A i \in DOMAIN table :
        table[i].SK = <<"PROFILE">> =>
            /\ Get(table[i], "hostedEventCount", 0) <= Cardinality(HostEdgesOf(table[i].PK[2]))
            /\ Get(table[i], "attendedEventCount", 0)
                   <= Cardinality(AttendsEdgesOf(table[i].PK[2]))

\* One call failed in its transaction, another stopped before its ADD: the
\* host edge is stored and the counter was not raised.
C30_Witness ==
    /\ \E p \in DOMAIN workers : ~Committed(workers[p])
    /\ \E p \in DOMAIN workers : Stopped(workers[p]) /\ workers[p].hostIds # <<>>
    /\ \E person \in UserIds :
           /\ HostEdgesOf(person) # {}
           /\ RowAt(table, UserKey(person)).hostedEventCount = 0

(***************************************************************************)
(* The store calls of one paginated read.  A second set of start states     *)
(* holds tables long enough for a scan to need several batches and page     *)
(* sizes on both sides of the cap of a batch.                               *)
(***************************************************************************)

MaxPage == 100
BatchRows == 11

PageSizes == {1, 2, 20, 21, 33, 34, MaxPage}

\* The tables of BatchRows rows in which at most two rows match: persons
\* among other persons or among gatherings, and one person followed by email
\* records.
MatchPlaces == {S \in SUBSET (1..BatchRows) : Cardinality(S) <= 2}

BatchUserTables ==
    {TableOf([i \in 1..BatchRows |-> IF i \in S THEN "Alice" ELSE other]) :
        S \in MatchPlaces, other \in {"Bob", "Carol", "Gathering"}}

BatchAnalyticsTables ==
    {TableOf([i \in 1..BatchRows |->
                 IF i = 1 THEN "Alice" ELSE IF i \in S THEN "Sent" ELSE "Queued"]) :
        S \in MatchPlaces}

\* The requests of SpecPage, and requests by place and by count range.
BatchFilterSets ==
    UserFilterSets \cup
    {[city |-> "San Francisco", state |-> "CA"],
     [city |-> "Austin", state |-> "CA"],
     [jobTitle |-> "Developer", attendedEventCount |-> [max |-> 0]],
     [hostedEventCount |-> [min |-> 0, max |-> 0],
      attendedEventCount |-> [min |-> 0]]}

InitBatch ==
    /\ lekAtEnd \in BOOLEAN
    /\ limit \in PageSizes
    /\ \/ kind = "users" /\ table \in BatchUserTables /\ filters \in BatchFilterSets
       \/ kind = "analytics" /\ table \in BatchAnalyticsTables
                             /\ filters \in AnalyticsArgSets
    /\ strategy = NotRun
    /\ calls = <<>>
    /\ result = NotRun
    /\ eventLog = <<>>
    /\ tasks = <<>>
    /\ workers = <<>>

NextBatch ==
    \/ FilterUsersFirstPage
    \/ FilterUsersNextPage
    \/ GetAnalyticsFirstPage
    \/ GetAnalyticsNextPage

SpecBatch == InitBatch /\ [][NextBatch]_vars

\* The over-fetch factor of the read a state is about.
OverfetchOf ==
    IF kind = "analytics" THEN AnalyticsOverfetch
    ELSE IF _choose_best_strategy(filters).type = "gsi_query"
         THEN QueryOverfetch ELSE ScanOverfetch

\* C31: filter_users and get_analytics come to an end on every table, filter
\* set and page size: a read makes at most one store call per row plus one,
\* every store call is made while the page is not full, and the read is left
\* with a full page or with no cursor from the store.
C31_ReadsTerminate ==
    \A n \in DOMAIN calls :
        /\ Len(calls[n].batches) <= Len(table) + 1
        /\ \A i \in DOMAIN calls[n].batches :
               calls[n].batches[i].collected < limit
        /\ calls[n].raised = None =>
               Len(calls[n].items) = limit \/ calls[n].cursor = NoKey

\* A read in which several batches were fetched and every one was rejected.
C31_Witness ==
    \E n \in DOMAIN calls :
        /\ calls[n].raised = None
        /\ Len(calls[n].batches) >= 3
        /\ calls[n].items = <<>>
        /\ calls[n].cursor = NoKey

\* C32: every store call asks for min((pageSize - collected) * m, 100) items,
\* m being 3 for an index query and 5 for a scan, and that Limit lies between
\* 1 and 100.
C32_BatchLimit ==
    \A n \in DOMAIN calls :
        \A i \in DOMAIN calls[n].batches :
            LET b == calls[n].batches[i]
                wanted == (limit - b.collected) * OverfetchOf
            IN /\ b.limit = (IF wanted < 100 THEN wanted ELSE 100)
               /\ b.limit >= 1
               /\ b.limit <= 100

\* A batch cut down to the cap.
C32_Witness ==
    \E n \in DOMAIN calls :
        \E i \in DOMAIN calls[n].batches :
            /\ (limit - calls[n].batches[i].collected) * OverfetchOf > 100
            /\ calls[n].batches[i].limit = 100

(***************************************************************************)
(* The planner: ties of selectivity.                                        *)
(***************************************************************************)
DeclaredOrder ==
    <<"location", "company", "jobTitle", "hostedEventCount", "attendedEventCount">>

\* The first filter of DeclaredOrder, among those present, that no present
\* filter beats in selectivity.
FirstMinimal(present) ==
    LET i == CHOOSE i \in DOMAIN DeclaredOrder :
                 /\ DeclaredOrder[i] \in present
                 /\ \A t \in present :
                        index_selectivity[DeclaredOrder[i]] <= index_selectivity[t]
                 /\ \A j \in 1..(i - 1) :
                        DeclaredOrder[j] \in present =>
                            index_selectivity[DeclaredOrder[j]]
                                > index_selectivity[DeclaredOrder[i]]
    IN DeclaredOrder[i]

\* C35: the primary filter is the first filter of minimal selectivity in the
\* order location, company, jobTitle, hostedEventCount, attendedEventCount;
\* with the two count filters and nothing more selective, hostedEventCount is
\* the primary and attendedEventCount the only residual.
C35_TieBrokenByOrder ==
    (strategy # NotRun /\ Recognized(filters) # {}) =>
        /\ strategy.type = "gsi_query"
        /\ strategy.primary_filter.type = FirstMinimal(Recognized(filters))
        /\ Recognized(filters) = {"hostedEventCount", "attendedEventCount"} =>
               /\ strategy.primary_filter.type = "hostedEventCount"
               /\ Len(strategy.secondary_filters) = 1
               /\ strategy.secondary_filters[1].type = "attendedEventCount"

C35_Witness ==
    /\ strategy # NotRun
    /\ Recognized(filters) = {"hostedEventCount", "attendedEventCount"}
    /\ index_selectivity["hostedEventCount"] = index_selectivity["attendedEventCount"]
    /\ strategy.primary_filter.type = "hostedEventCount"
    /\ strategy.secondary_filters[1].type = "attendedEventCount"

(***************************************************************************)
(* What a page of filter_users holds.                                       *)
(***************************************************************************)
\* The item satisfies the recognized filters of f, read off the item.
SatisfiesRecognized(item, f) ==
    /\ "company" \in Recognized(f) =>
           "company" \in DOMAIN item /\ item.company = f.company
    /\ "jobTitle" \in Recognized(f) =>
           "jobTitle" \in DOMAIN item /\ item.jobTitle = f.jobTitle
    /\ "location" \in Recognized(f) =>
           /\ "city" \in DOMAIN item /\ item.city = f.city
           /\ "state" \in DOMAIN item /\ item.state = f.state
    /\ \A k \in {"hostedEventCount", "attendedEventCount"} \cap Recognized(f) :
           /\ "min" \in DOMAIN f[k] => item[k] >= f[k].min
           /\ "max" \in DOMAIN f[k] => item[k] <= f[k].max

\* C36: every item filter_users returns, by index query or by scan, is a
\* Person profile row of the table that satisfies every recognized filter of
\* the request, and no page holds more than the page size.
C36_PageOfMatchingPersons ==
    kind = "users" =>
        \A n \in DOMAIN calls :
            /\ Len(calls[n].items) <= limit
            /\ \A j \in DOMAIN calls[n].items :
                   /\ \E i \in DOMAIN table :
                          /\ table[i].SK = <<"PROFILE">>
                          /\ table[i].PK = <<"USER", calls[n].items[j].id>>
                          /\ calls[n].items[j] = _clean_dynamodb_fields(table[i])
                   /\ SatisfiesRecognized(calls[n].items[j], filters)

\* A read by index with a residual filter, over a table that holds a person
\* the residual filter rejects before the persons returned.
C36_Witness ==
    /\ kind = "users"
    /\ filters = [company |-> "Tech Corp", jobTitle |-> "Developer"]
    /\ table[1].SK = <<"PROFILE">> /\ table[1].jobTitle = "Designer"
    /\ \E n \in DOMAIN calls : Len(calls[n].items) = 2

(***************************************************************************)
(* The index against the scan.                                              *)
(***************************************************************************)
\* The ids of the Person rows of the table that the in-memory predicate
\* accepts, whatever index they can be reached through.
MatchingPersonIds(tbl, f) ==
    {tbl[i].id : i \in {j \in DOMAIN tbl :
                           /\ tbl[j].SK = <<"PROFILE">>
                           /\ _matches_all_filters(tbl[j], f)}}

\* The recognized filters of the request are there and hold strings.
StringFiltersOnly(f) ==
    /\ Recognized(f) # {}
    /\ Recognized(f) \subseteq {"company", "jobTitle", "location"}

\* C37: for recognized filters with string values, the persons reached
\* through the index the selector picks and then checked in memory are the
\* persons a scan of all Person rows with the same check finds: a read whose
\* page can hold the whole table returns every matching person.
C37_IndexHidesNoPerson ==
    (kind = "users" /\ StringFiltersOnly(filters)) =>
        /\ Ids(FullPass(table, filters)) = MatchingPersonIds(table, filters)
        /\ \A n \in DOMAIN calls :
               (calls[n].token = NoToken /\ calls[n].raised = None
                    /\ limit >= Len(table))
                   => Ids(calls[n].items) = MatchingPersonIds(table, filters)

\* A read by place over a table holding persons of that place and a person
\* registered with a city and no state.
C37_Witness ==
    /\ kind = "users"
    /\ filters = [city |-> "San Francisco", state |-> "CA"]
    /\ limit >= Len(table)
    /\ \E i \in DOMAIN table : table[i].SK = <<"PROFILE">> /\ table[i].firstName = "Carol"
    /\ \E n \in DOMAIN calls : Len(calls[n].items) = 2

(***************************************************************************)
(* Reads by count range over counters whose sort keys lag behind.  The     *)
(* counters of two of the registered persons are incremented, some          *)
(* increments stopping between the ADD and the SET, and then the table is   *)
(* read.                                                                    *)
(***************************************************************************)
MaxIncrements == 3
StalePersons == 3

CountFilterSets ==
    {[hostedEventCount |-> [min |-> 1]],
     [hostedEventCount |-> [min |-> 1, max |-> 1]],
     [attendedEventCount |-> [max |-> 0]],
     [hostedEventCount |-> [max |-> 0], attendedEventCount |-> [min |-> 1]]}

InitStale ==
    /\ table = [i \in 1..StalePersons |-> create_user_item(i, Alice)]
    /\ lekAtEnd \in BOOLEAN
    /\ filters \in CountFilterSets
    /\ limit \in {1, MaxPage}
    /\ kind = "users"
    /\ strategy = NotRun
    /\ calls = <<>>
    /\ result = NotRun
    /\ eventLog = <<>>
    /\ tasks = <<>>
    /\ workers = <<>>

\* increment_hosted_count or increment_attended_count, both update_item
\* calls made.
IncrementCount ==
    /\ calls = <<>> /\ Len(eventLog) < MaxIncrements
    /\ \E user_id \in UserIds, role \in {"host", "attendee"} :
           /\ table' = IF role = "host" THEN increment_hosted_count(table, user_id)
                       ELSE increment_attended_count(table, user_id)
           /\ eventLog' = Append(eventLog, [role |-> role, user_id |-> user_id,
                                            raised |-> None])
    /\ UNCHANGED <<lekAtEnd, filters, strategy, kind, limit, calls, result, tasks, workers>>

\* The same, the second update_item raising: the ADD stays, the sort key is
\* not rewritten.
IncrementCountStops ==
    /\ calls = <<>> /\ Len(eventLog) < MaxIncrements
    /\ \E user_id \in UserIds, role \in {"host", "attendee"} :
           /\ table' = IF role = "host" THEN AddHostedCount(table, user_id)
                       ELSE AddAttendedCount(table, user_id)
           /\ eventLog' = Append(eventLog,
                                 [role |-> role, user_id |-> user_id,
                                  raised |-> IncrementErrorMessage([role |-> role])])
    /\ UNCHANGED <<lekAtEnd, filters, strategy, kind, limit, calls, result, tasks, workers>>

NextStale ==
    \/ IncrementCount
    \/ IncrementCountStops
    \/ FilterUsersFirstPage
    \/ FilterUsersNextPage

SpecStale == InitStale /\ [][NextStale]_vars

\* The count the sort key of a counter carries.
KeyCount(row, k) ==
    IF k = "hostedEventCount" THEN row.GSI_UsersByHostedCount_SK[2][10]
    ELSE row.GSI_UsersByAttendedCount_SK[2][10]

\* The persons whose counters, as the rows hold them, lie within every count
\* range of the request.
PersonsInRange(tbl, f) ==
    {tbl[i].id : i \in {j \in DOMAIN tbl :
        /\ tbl[j].SK = <<"PROFILE">>
        /\ \A k \in {"hostedEventCount", "attendedEventCount"} \cap DOMAIN f :
               /\ "min" \in DOMAIN f[k] => tbl[j][k] >= f[k].min
               /\ "max" \in DOMAIN f[k] => tbl[j][k] <= f[k].max}}

\* C38: a count range is checked against the counter the row holds, not
\* against the sort key: every person a page holds has the counters within
\* the ranges asked for, and a read whose page can hold the table returns
\* exactly the persons whose counters are within them, stale sort keys or not.
C38_RangeReadsLiveCounter ==
    \A n \in DOMAIN calls :
        calls[n].raised = None =>
            /\ Ids(calls[n].items) \subseteq PersonsInRange(table, filters)
            /\ (calls[n].token = NoToken /\ limit >= Len(table)) =>
                   Ids(calls[n].items) = PersonsInRange(table, filters)

\* A person whose hosted count is within the range asked for while the sort
\* key still carries a count outside it, and who is on the page.
C38_Witness ==
    /\ filters = [hostedEventCount |-> [min |-> 1]]
    /\ \E n \in DOMAIN calls : \E i \in DOMAIN table :
           /\ table[i].hostedEventCount = 1
           /\ KeyCount(table[i], "hostedEventCount") = 0
           /\ table[i].id \in Ids(calls[n].items)

(***************************************************************************)
(* The envelope of a get_analytics response.                                *)
(***************************************************************************)
\* C40: in every response of get_analytics, hasMore is true exactly when the
\* response carries a next token, count is the number of records of the page,
\* and count is at most the page size.
C40_ResponseEnvelope ==
    kind = "analytics" =>
        \A n \in DOMAIN calls :
            calls[n].raised = None =>
                /\ calls[n].hasMore = (calls[n].next_token # NoToken)
                /\ calls[n].count = Len(calls[n].items)
                /\ calls[n].count <= limit

\* A session of two responses: a full page with a token, then a full page
\* with none.
C40_Witness ==
    /\ kind = "analytics" /\ Len(calls) = 2
    /\ calls[1].hasMore /\ calls[1].count = limit
    /\ ~calls[2].hasMore /\ calls[2].count = limit

(***************************************************************************)
(* A dispatch in which put_item raises for some recipients.                 *)
(* _create_email_analytics_items prints the ClientError and goes on: the id *)
(* is returned all the same and its delivery unit is queued.                *)
(***************************************************************************)
_create_email_analytics_items_put_fails(tbl, users, campaign_id, subject, utm, put_fails) ==
    LET first == FreshEmailId(tbl)
        email_ids == [i \in DOMAIN users |-> first + i - 1]
        written == SelectSeq([i \in DOMAIN users |-> i], LAMBDA i : i \notin put_fails)
    IN [table |-> tbl \o [n \in DOMAIN written |->
                              analytics_item(email_ids[written[n]], users[written[n]],
                                             campaign_id, subject, utm,
                                             IsoUtc(email_ids[written[n]]))],
        email_ids |-> email_ids]

send_bulk_email_put_fails(tbl, email_request, campaign_id, put_fails) ==
    LET users == _filter_users_for_email(tbl, EmailFilters(email_request))
        utm_params == [k \in {"utmCampaign", "utmSource", "utmMedium"} |->
                          Get(email_request, k, None)]
        created == _create_email_analytics_items_put_fails(
                       tbl, users, campaign_id, email_request.subject, utm_params,
                       put_fails)
        added == add_tasks(created.table, users, created.email_ids)
    IN [table |-> added.table, queue |-> added.queue,
        value |-> [emailsQueued |-> Len(users), campaignId |-> campaign_id]]

InitPutFault ==
    /\ table \in {PersonTable(n) : n \in 1..MaxPersons}
    /\ lekAtEnd \in BOOLEAN
    /\ filters = EmptyDict
    /\ strategy = NotRun
    /\ kind = "mail"
    /\ limit = 0
    /\ calls = <<>>
    /\ result = NotRun
    /\ eventLog = <<>>
    /\ tasks = <<>>
    /\ workers = <<>>

SendBulkEmailPutFails ==
    /\ calls = <<>>
    /\ \E email_request \in EmailRequests, put_fails \in SUBSET (1..MaxPersons) :
           \E r \in {send_bulk_email_put_fails(table, email_request, 1, put_fails)} :
               /\ table' = r.table
               /\ calls' = <<[type |-> "send_bulk_email", request |-> email_request,
                              value |-> r.value, put_fails |-> put_fails]>>
               /\ tasks' = <<r.queue>>
    /\ UNCHANGED <<lekAtEnd, filters, strategy, kind, limit, result, eventLog, workers>>

NextPutFault == SendBulkEmailPutFails \/ RunEmailTask

SpecPutFault == InitPutFault /\ [][NextPutFault]_vars

IdentityFields == {"id", "userId", "email", "subject", "campaignId", "createdAt"}

\* C39: every email record of the table (sort key ANALYTICS) carries id,
\* userId, email, subject, campaignId and createdAt, as the dispatch that
\* created it wrote them: no status update brings a row into existence.
C39_RecordsCarryIdentity ==
    \A i \in DOMAIN table :
        table[i].SK = <<"ANALYTICS">> => IdentityFields \subseteq DOMAIN table[i]

(***************************************************************************)
(* The order in which delivery units complete.  What the send capability   *)
(* answers for each email record is fixed at the start, workers[email_id];  *)
(* the campaigns are dispatched one after the other and the units of        *)
(* different campaigns complete in any order.                               *)
(***************************************************************************)
OrderCampaigns == 2

OrderRequests ==
    {[subject |-> "Hello", utmCampaign |-> "spring"],
     [subject |-> "Hello", utmCampaign |-> "spring", jobTitle |-> "Developer"]}

FixedOutcomes ==
    {[returns |-> TRUE], [returns |-> FALSE], [throws |-> "SMTP server error"]}

InitOrder ==
    /\ table = PersonTable(Cardinality(UserIds))
    /\ workers \in [1..(OrderCampaigns * Cardinality(UserIds)) ->
                        {[outcome |-> o] : o \in FixedOutcomes}]
    /\ lekAtEnd = FALSE
    /\ filters = EmptyDict
    /\ strategy = NotRun
    /\ kind = "mail"
    /\ limit = 0
    /\ calls = <<>>
    /\ result = NotRun
    /\ eventLog = <<>>
    /\ tasks = <<>>

SendBulkEmailInOrder ==
    /\ Len(calls) < OrderCampaigns
    /\ \E email_request \in OrderRequests :
           \E r \in {send_bulk_email(table, email_request, Len(calls) + 1)} :
               /\ table' = r.table
               /\ calls' = Append(calls, [type |-> "send_bulk_email",
                                          request |-> email_request, value |-> r.value])
               /\ tasks' = Append(tasks, r.queue)
    /\ UNCHANGED <<lekAtEnd, filters, strategy, kind, limit, result, eventLog, workers>>

\* The next unit of some campaign completes, the send capability answering
\* what was fixed for its record.
CompleteEmailTask ==
    /\ \E c \in DOMAIN tasks :
           /\ tasks[c] # <<>>
           /\ LET email_id == Head(tasks[c]).email_id IN
                  /\ table' = process_email_task(table, email_id,
                                                 workers[email_id].outcome,
                                                 IsoUtc(Len(eventLog) + 1))
                  /\ result' = [type |-> "process_email_task", raised |-> None,
                                email_id |-> email_id,
                                outcome |-> workers[email_id].outcome]
                  /\ eventLog' = Append(eventLog, email_id)
           /\ tasks' = [tasks EXCEPT ![c] = Tail(@)]
    /\ UNCHANGED <<lekAtEnd, filters, strategy, kind, limit, calls, workers>>

NextOrder == SendBulkEmailInOrder \/ CompleteEmailTask

SpecOrder == InitOrder /\ [][NextOrder]_vars

\* The table with each sentAt reduced to its being there: the clock reading
\* at completion is the one thing an order of completion is bound to change.
WithoutClock(tbl) ==
    [i \in DOMAIN tbl |->
        IF "sentAt" \in DOMAIN tbl[i] THEN [tbl[i] EXCEPT !.sentAt = "set"] ELSE tbl[i]]

\* The table after the requests of cs are dispatched one after the other,
\* the k-th as campaign done + k.
RECURSIVE DispatchAll(_, _, _)
DispatchAll(tbl, cs, done) ==
    IF cs = <<>> THEN tbl
    ELSE DispatchAll(send_bulk_email(tbl, Head(cs).request, done + 1).table,
                     Tail(cs), done + 1)

\* The table after the units of the records 1..n complete in the order of
\* their ids.
RECURSIVE CompleteInIdOrder(_, _)
CompleteInIdOrder(tbl, n) ==
    IF n = 0 THEN tbl
    ELSE process_email_task(CompleteInIdOrder(tbl, n - 1), n, workers[n].outcome,
                            IsoUtc(n))

AllCompleted ==
    /\ Len(calls) = OrderCampaigns
    /\ \A c \in DOMAIN tasks : tasks[c] = <<>>

\* C34: a delivery unit changes no row but the record it was queued for, and
\* once every unit has completed the table is the one reached by completing
\* the units in the order of their ids, whatever order they completed in.
C34_AnyOrderSameTable ==
    /\ [][TaskRan => OthersUntouched]_vars
    /\ [](AllCompleted =>
            WithoutClock(table) =
                WithoutClock(CompleteInIdOrder(
                    DispatchAll(PersonRows(table), calls, 0), Len(eventLog))))

\* Every unit has completed, a unit of the second campaign before the last
\* unit of the first, with outcomes that differ.
C34_Witness ==
    /\ AllCompleted
    /\ Len(eventLog) = 4
    /\ eventLog[1] = 3 /\ eventLog[4] = 2
    /\ workers[3].outcome # workers[2].outcome
    /\ workers[1].outcome # workers[2].outcome

(***************************************************************************)
(* Deliveries run to their end.  The units are run by BackgroundTasks after *)
(* the response, each to completion: weak fairness of the delivery step.    *)
(* The send capability returns or throws; the update_item of                *)
(* track_email_status is accepted by the store or raises a ClientError,     *)
(* which track_email_status prints.                                         *)
(***************************************************************************)
InitDeliver ==
    /\ table = PersonTable(Cardinality(UserIds))
    /\ lekAtEnd = FALSE
    /\ filters = EmptyDict
    /\ strategy = NotRun
    /\ kind = "mail"
    /\ limit = 0
    /\ calls = <<>>
    /\ result = NotRun
    /\ eventLog = <<>>
    /\ tasks = <<>>
    /\ workers = <<>>

\* process_email_task for the next unit of a campaign; client_error: the
\* update_item of track_email_status raised, the table is as it was.
DeliverEmailTask ==
    /\ \E c \in DOMAIN tasks :
           /\ tasks[c] # <<>>
           /\ \E outcome \in FixedOutcomes, client_error \in BOOLEAN :
                  /\ table' = IF client_error THEN table
                              ELSE process_email_task(table, Head(tasks[c]).email_id,
                                                      outcome, IsoUtc(Len(eventLog) + 1))
                  /\ eventLog' = Append(eventLog,
                                        [email_id |-> Head(tasks[c]).email_id,
                                         client_error |-> client_error])
           /\ tasks' = [tasks EXCEPT ![c] = Tail(@)]
    /\ UNCHANGED <<lekAtEnd, filters, strategy, kind, limit, calls, result, workers>>

NextDeliver == SendBulkEmailInOrder \/ DeliverEmailTask

SpecDeliver == InitDeliver /\ [][NextDeliver]_vars /\ WF_vars(DeliverEmailTask)

RecordIds == 1..(OrderCampaigns * Cardinality(UserIds))

StatusOf(email_id) ==
    IF HasKey(table, EmailKey(email_id))
    THEN RowAt(table, EmailKey(email_id)).status ELSE "none"

UpdateRejected(email_id) ==
    \E i \in DOMAIN eventLog :
        eventLog[i].email_id = email_id /\ eventLog[i].client_error

\* C33: with the delivery units scheduled fairly and the send capability
\* always returning or throwing, every email record send_bulk_email created
\* comes to be sent or failed: none stays queued for ever.
C33_NoRecordStaysQueued ==
    \A email_id \in RecordIds :
        (StatusOf(email_id) = "queued") ~> (StatusOf(email_id) \in {"sent", "failed"})

\* The same for the records whose status update the store accepted.
NoRecordStaysQueuedUnlessRejected ==
    \A email_id \in RecordIds :
        (StatusOf(email_id) = "queued")
            ~> (StatusOf(email_id) \in {"sent", "failed"} \/ UpdateRejected(email_id))
====
